---- MODULE Spec2Model ----
(***************************************************************************)
(* Session scheduler and spaced-repetition state machine of the vocabulary *)
(* app (src/types.ts: App component), as a state machine.                  *)
(*                                                                         *)
(* React semantics kept by the model: an event handler reads the state     *)
(* values captured by the render it belongs to (the "closure", cl below),  *)
(* while a functional updater setX(prev => ...) reads the current value.   *)
(* All updates queued by one handler call are applied together, so one     *)
(* handler call is one action.                                             *)
(*                                                                         *)
(* Words are represented by their id. Time is counted in units of 12 h.   *)
(***************************************************************************)
EXTENDS Integers, Sequences, FiniteSets, TLC

VARIABLES
    WORD_LIST,         \* the catalog (data module), fixed after Init
    now,               \* the wall clock, Date.now()
    progress,          \* useState<UserProgress>
    appState,          \* useState<AppState>
    sessionMode,       \* useState<SessionMode>
    taskQueue,         \* useState<Task[]>
    currentTaskIndex,  \* useState(0), 0-based as in the source
    combo,             \* useState(0)
    sessionXpGained,   \* useState(0)
    sessionErrors,     \* useState(0)
    isFlipped,         \* useState(false)
    pending,           \* QuestionCard timers not yet fired: the delayed onAnswer calls
    reminder,          \* the reminder's surroundings: notification permission, the
                       \* last_reminder_date item, the wall clock in minutes and the
                       \* notifications shown so far
    card,              \* the MATCH game of the QuestionCard shown: its useState
                       \* values and its timer not yet fired
    sw,                \* the service worker's surroundings: its cache, the
                       \* server and the network, and its last response
    successRun,        \* history: outcomes since the last failure or session start
    effort,            \* exploration budget: session starts, exits, failed answers
                       \* and clock ticks that may still happen
    last               \* history: the last handler call and the state it started from

vars == <<WORD_LIST, now, progress, appState, sessionMode, taskQueue,
          currentTaskIndex, combo, sessionXpGained, sessionErrors, isFlipped,
          pending, reminder, card, sw, successRun, effort, last>>

----------------------------------------------------------------------------
\* Bounds of the exploration.

CatalogSize == 2
MaxRand == 1
MaxEffort == 4
LessonEffort == 3
TimerEffort == 3
StreakEffort == 5
CourseEffort == 2
StoreEffort == 3
ReminderEffort == 6
MaxDay == 1
ReviewCatalogSize == 13
ReviewEffort == 2
MaxStride == 2
MaxPending == 2
MatchCatalogSize == 2
MatchEffort == 2
MaxVersion == 2

\* The clock at Init: noon of the first day.
StartTime == 1

\* The steps of the clock: 12 h, 24 h.
TickSteps == {1, 2}

----------------------------------------------------------------------------
\* Program constants.

WORDS_PER_LESSON == 6

\* oneDay = 24 * 60 * 60 * 1000 ms, here in units of 12 h.
oneDay == 2

intervals == <<1, 2, 4, 7, 14, 30>>

\* A review session takes the first 12 sorted candidates.
REVIEW_WORDS == 12

\* A review session gets a MATCH task from 6 selected words on.
MATCH_GROUP == 6

\* Number of words of a lesson that get a SCRAMBLE task.
SCRAMBLE_WORDS == 3

XP_BASE == 10

XP_PER_COMBO == 2

\* The box a word cannot exceed.
MAX_BOX == 5

\* isYesterday: less than 48 h between the two study dates.
TWO_DAYS == 4

\* Lengths of the months of a (non-leap) year, for Date.getMonth/getDate.
DaysInMonth == <<31, 28, 31, 30, 31, 30, 31, 31, 30, 31, 30, 31>>

LEARN == "LEARN"
CHOICE == "CHOICE"
ASSEMBLE == "ASSEMBLE"
SCRAMBLE == "SCRAMBLE"
MATCH == "MATCH"
SPELL == "SPELL"

TaskType == {LEARN, CHOICE, ASSEMBLE, SCRAMBLE, MATCH, SPELL}

DASHBOARD == "DASHBOARD"
COURSES == "COURSES"
SESSION == "SESSION"
SUMMARY == "SUMMARY"

----------------------------------------------------------------------------
\* Array helpers, with JavaScript's semantics on 0-based positions.

Min(a, b) == IF a <= b THEN a ELSE b

Max(a, b) == IF a >= b THEN a ELSE b

\* Array.prototype.slice(from, to): positions from..to-1, clamped to the array.
Slice(s, from, to) == SubSeq(s, Min(from, Len(s)) + 1, Min(to, Len(s)))

\* slice(from): to the end.
SliceFrom(s, from) == Slice(s, from, Len(s))

\* Mutant of Splice: splice(start, 1, item), the item takes the place of the
\* element at start.
Splice_Replace(s, start, item) ==
    LET k == Min(start, Len(s))
    IN  SubSeq(s, 1, k) \o <<item>> \o SubSeq(s, k + 2, Len(s))

\* Array.prototype.splice(start, 0, item): insert before position start,
\* start clamped to the length.
Splice(s, start, item) ==
    LET k == Min(start, Len(s))
    IN  SubSeq(s, 1, k) \o <<item>> \o SubSeq(s, k + 1, Len(s))

\* Array.prototype.includes
Includes(s, x) == \E i \in 1..Len(s) : s[i] = x

\* Mutant of Dedup: nothing is removed.
Dedup_KeepAll(s) == s

\* [...new Set(s)]: first occurrences, in order.
RECURSIVE Dedup(_)
Dedup(s) ==
    IF s = <<>> THEN <<>>
    ELSE LET front == Dedup(SubSeq(s, 1, Len(s) - 1))
             x == s[Len(s)]
         IN  IF Includes(front, x) THEN front ELSE Append(front, x)

\* sort(() => Math.random() - 0.5): some permutation of s. The random source
\* is the input r; the permutations explored are the rotations of s.
Shuffle(s, r) ==
    IF s = <<>> THEN s
    ELSE LET k == r % Len(s)
         IN  SubSeq(s, k + 1, Len(s)) \o SubSeq(s, 1, k)

----------------------------------------------------------------------------
\* The catalog (data module: WORD_LIST, TOTAL_LESSONS).

\* A catalog of n words, ids 1..n, in catalog order.
Catalog(n) == [i \in 1..n |-> i]

\* TOTAL_LESSONS = ceil(catalog size / WORDS_PER_LESSON)
TOTAL_LESSONS == (Len(WORD_LIST) + WORDS_PER_LESSON - 1) \div WORDS_PER_LESSON

----------------------------------------------------------------------------
\* Data model.

\* interface Task; isRetry absent is false, groupWords absent is <<>>.
Task(word, type, isRetry, groupWords) ==
    [word |-> word, type |-> type, isRetry |-> isRetry, groupWords |-> groupWords]

\* Mutant of getInitialProgress: the default streak is 1.
getInitialProgress_StreakOne(t) ==
    [currentLessonIndex |-> 0, completedWordIds |-> <<>>, wordStats |-> <<>>,
     lessonStats |-> <<>>, lastStudyDate |-> t, totalXp |-> 0, dayStreak |-> 1,
     reminderEnabled |-> FALSE, reminderTime |-> "20:00"]

\* getInitialProgress with nothing stored: the default progress.
getInitialProgress(t) ==
    [currentLessonIndex |-> 0,
     completedWordIds |-> <<>>,
     wordStats |-> <<>>,
     lessonStats |-> <<>>,
     lastStudyDate |-> t,
     totalXp |-> 0,
     dayStreak |-> 0,
     reminderEnabled |-> FALSE,
     reminderTime |-> "20:00"]

\* getWordStats: the stored record, or the default one.
getWordStats(p, id) ==
    IF id \in DOMAIN p.wordStats
    THEN p.wordStats[id]
    ELSE [wordId |-> id, box |-> 0, nextReviewDate |-> 0, consecutiveCorrect |-> 0]

\* Mutant of getNextReviewTime: the box is capped one interval too early.
getNextReviewTime_CapEarly(box, t) ==
    t + intervals[Min(box, Len(intervals) - 2) + 1] * oneDay

\* getNextReviewTime, t being Date.now().
getNextReviewTime(box, t) ==
    LET daysToAdd == intervals[Min(box, Len(intervals) - 1) + 1]
    IN  t + daysToAdd * oneDay

\* { ...m, [key]: value } on a Record<number, T>
Put(m, key, value) == [k \in (DOMAIN m) \cup {key} |-> IF k = key THEN value ELSE m[k]]

----------------------------------------------------------------------------
\* Persistence: the progress is written to localStorage as JSON text after
\* every change and read back when the app is constructed. JSON text is
\* represented by its structure, numbers and object keys by their decimal
\* digits.

\* String(n): the decimal digits of a natural number.
RECURSIVE ToDigits(_)
ToDigits(n) == IF n < 10 THEN <<n>> ELSE Append(ToDigits(n \div 10), n % 10)

\* Number(text): the number written with these digits.
RECURSIVE FromDigits(_)
FromDigits(d) ==
    IF Len(d) = 1 THEN d[1]
    ELSE FromDigits(SubSeq(d, 1, Len(d) - 1)) * 10 + d[Len(d)]

\* JSON.stringify of a Record<number, T> whose values are already text: the
\* keys become text.
StringifyMap(m) == {<<ToDigits(k), m[k]>> : k \in DOMAIN m}

\* The Record<number, T> read from a parsed object, its values still text;
\* property access by a number finds the entry whose key is the number's text.
ParseMap(entries) ==
    [k \in {FromDigits(e[1]) : e \in entries} |->
        (CHOOSE e \in entries : FromDigits(e[1]) = k)[2]]

StringifyWordStats(stat) ==
    [wordId |-> ToDigits(stat.wordId), box |-> ToDigits(stat.box),
     nextReviewDate |-> ToDigits(stat.nextReviewDate),
     consecutiveCorrect |-> ToDigits(stat.consecutiveCorrect)]

ParseWordStats(text) ==
    [wordId |-> FromDigits(text.wordId), box |-> FromDigits(text.box),
     nextReviewDate |-> FromDigits(text.nextReviewDate),
     consecutiveCorrect |-> FromDigits(text.consecutiveCorrect)]

StringifyLessonStats(stat) ==
    [lessonIndex |-> ToDigits(stat.lessonIndex), stars |-> ToDigits(stat.stars),
     isCompleted |-> stat.isCompleted]

ParseLessonStats(text) ==
    [lessonIndex |-> FromDigits(text.lessonIndex), stars |-> FromDigits(text.stars),
     isCompleted |-> text.isCompleted]

\* JSON.stringify(progress)
Stringify(p) ==
    [currentLessonIndex |-> ToDigits(p.currentLessonIndex),
     completedWordIds |-> [i \in 1..Len(p.completedWordIds) |-> ToDigits(p.completedWordIds[i])],
     wordStats |-> StringifyMap([k \in DOMAIN p.wordStats |->
                                    StringifyWordStats(p.wordStats[k])]),
     lessonStats |-> StringifyMap([k \in DOMAIN p.lessonStats |->
                                      StringifyLessonStats(p.lessonStats[k])]),
     lastStudyDate |-> ToDigits(p.lastStudyDate),
     totalXp |-> ToDigits(p.totalXp),
     dayStreak |-> ToDigits(p.dayStreak),
     reminderEnabled |-> p.reminderEnabled,
     reminderTime |-> p.reminderTime]

\* The value JSON.parse gives a property of the stored object.
ParseField(name, text) ==
    CASE name \in {"currentLessonIndex", "lastStudyDate", "totalXp", "dayStreak"}
            -> FromDigits(text)
      [] name = "completedWordIds" -> [i \in 1..Len(text) |-> FromDigits(text[i])]
      [] name = "wordStats" ->
            [k \in DOMAIN ParseMap(text) |-> ParseWordStats(ParseMap(text)[k])]
      [] name = "lessonStats" ->
            [k \in DOMAIN ParseMap(text) |-> ParseLessonStats(ParseMap(text)[k])]
      [] OTHER -> text

\* What localStorage may hold under STORAGE_KEY: nothing, text that is not
\* JSON, the JSON text null, or the JSON text of an object.
NoItem == [kind |-> "absent"]
NotJson == [kind |-> "unparseable"]
JsonNull == [kind |-> "null"]
JsonObject(fields) == [kind |-> "object", fields |-> fields]

\* localStorage.setItem(STORAGE_KEY, JSON.stringify(progress))
setItem(p) == JsonObject(Stringify(p))

\* Mutant of Spread: { ...parsed, ...defaults }, the defaults win.
Spread_DefaultsWin(defaults, parsed) == defaults

\* { ...defaults, ...parsed }
Spread(defaults, parsed) ==
    [name \in DOMAIN defaults |->
        IF name \in DOMAIN parsed THEN parsed[name] ELSE defaults[name]]

\* getInitialProgress at time t with saved in storage: the defaults when
\* there is no item or JSON.parse throws, else the defaults overwritten by the
\* properties of the parsed value (null has none).
getInitialProgressFrom(saved, t) ==
    IF saved.kind = "object"
    THEN Spread(getInitialProgress(t),
                [name \in DOMAIN saved.fields |-> ParseField(name, saved.fields[name])])
    ELSE getInitialProgress(t)

----------------------------------------------------------------------------
\* The calendar of new Date(t): the epoch is the midnight that starts
\* 1 January; leap years are left out.

RECURSIVE SumSeq(_)
SumSeq(s) == IF s = <<>> THEN 0 ELSE s[1] + SumSeq(Tail(s))

\* <<month (0-based), day of month (1-based)>> of the d-th day of a year.
RECURSIVE MonthAndDate(_, _)
MonthAndDate(d, m) ==
    IF d < DaysInMonth[m] THEN <<m - 1, d + 1>>
    ELSE MonthAndDate(d - DaysInMonth[m], m + 1)

DayOfYear(t) == (t \div oneDay) % SumSeq(DaysInMonth)

\* Date.prototype.getMonth
getMonth(t) == MonthAndDate(DayOfYear(t), 1)[1]

\* Date.prototype.getDate
getDate(t) == MonthAndDate(DayOfYear(t), 1)[2]

----------------------------------------------------------------------------
\* startSession: the queue of a lesson.

\* newWords.forEach(word => tasks.push({ word, type }))
TasksOf(words, type) == [i \in 1..Len(words) |-> Task(words[i], type, FALSE, <<>>)]

\* tasks.filter(t => t.type === type)
OfType(tasks, type) == SelectSeq(tasks, LAMBDA t : t.type = type)

\* WORD_LIST.slice(startIdx, startIdx + WORDS_PER_LESSON)
LessonWords(lessonIdx) ==
    Slice(WORD_LIST, lessonIdx * WORDS_PER_LESSON,
          lessonIdx * WORDS_PER_LESSON + WORDS_PER_LESSON)

\* Mutant of LessonQueue: a SCRAMBLE task for every word of the lesson.
LessonQueue_ScrambleAll(lessonIdx, r) ==
    LET newWords == LessonWords(lessonIdx)
    IN  TasksOf(newWords, LEARN) \o Shuffle(TasksOf(newWords, CHOICE), r + 1)
        \o Shuffle(TasksOf(newWords, ASSEMBLE), r + 2)
        \o Shuffle(TasksOf(newWords, SPELL), r + 3)
        \o Shuffle(TasksOf(Shuffle(newWords, r), SCRAMBLE), r + 4)
        \o <<Task(newWords[1], MATCH, FALSE, newWords)>>

\* The final queue of lesson lessonIdx; r is the random source. The five
\* sort(() => Math.random() - 0.5) calls draw r, r+1, .., r+4.
LessonQueue(lessonIdx, r) ==
    LET newWords == LessonWords(lessonIdx)
        scrambleWords == Slice(Shuffle(newWords, r), 0, SCRAMBLE_WORDS)
        tasks == TasksOf(newWords, LEARN) \o TasksOf(newWords, CHOICE)
                 \o TasksOf(newWords, ASSEMBLE) \o TasksOf(newWords, SPELL)
                 \o TasksOf(scrambleWords, SCRAMBLE)
        p2 == Shuffle(OfType(tasks, CHOICE), r + 1)
        p3 == Shuffle(OfType(tasks, ASSEMBLE), r + 2)
        p4 == Shuffle(OfType(tasks, SPELL), r + 3)
        p5 == Shuffle(OfType(tasks, SCRAMBLE), r + 4)
        finalQueue == OfType(tasks, LEARN) \o p2 \o p3 \o p4 \o p5
    IN  Append(finalQueue, Task(newWords[1], MATCH, FALSE, newWords))

----------------------------------------------------------------------------
\* startReviewSession: the queue of a review.

\* new Set([...completedWordIds, ...Object.keys(wordStats).map(Number)])
CandidateIds(p) ==
    {p.completedWordIds[i] : i \in 1..Len(p.completedWordIds)} \cup DOMAIN p.wordStats

\* Mutant of SortsBefore: the box is not compared.
SortsBefore_DueOnly(p, a, b, t) ==
    getWordStats(p, a).nextReviewDate <= t /\ ~(getWordStats(p, b).nextReviewDate <= t)

\* The comparator of the sort returns a negative number: a goes before b.
\* (On equal due status and box the comparator answers at random.)
SortsBefore(p, a, b, t) ==
    LET statsA == getWordStats(p, a)
        statsB == getWordStats(p, b)
        isDueA == statsA.nextReviewDate <= t
        isDueB == statsB.nextReviewDate <= t
    IN  IF isDueA /\ ~isDueB THEN TRUE
        ELSE IF ~isDueA /\ isDueB THEN FALSE
        ELSE statsA.box < statsB.box

\* x inserted into the sorted s, behind the words it does not sort before.
RECURSIVE InsertSorted(_, _, _, _)
InsertSorted(p, s, x, t) ==
    IF s = <<>> THEN <<x>>
    ELSE IF SortsBefore(p, x, s[1], t) THEN <<x>> \o s
    ELSE <<s[1]>> \o InsertSorted(p, Tail(s), x, t)

RECURSIVE SortCandidates(_, _, _)
SortCandidates(p, s, t) ==
    IF s = <<>> THEN <<>>
    ELSE InsertSorted(p, SortCandidates(p, SubSeq(s, 1, Len(s) - 1), t), s[Len(s)], t)

\* candidates.sort(...): sorted by due status, then box; words the comparator
\* ties on come out in a random order, here the order Shuffle(_, r) gives them.
SortedCandidates(p, t, r) ==
    LET candidateIds == CandidateIds(p)
        candidates == SelectSeq(WORD_LIST, LAMBDA w : w \in candidateIds)
    IN  SortCandidates(p, Shuffle(candidates, r), t)

\* Mutant of ReviewTasksOf: every box above 1 gets the single SPELL task.
ReviewTasksOf_TwoTiers(p, word) ==
    IF getWordStats(p, word).box <= 1
    THEN <<Task(word, LEARN, FALSE, <<>>), Task(word, ASSEMBLE, FALSE, <<>>)>>
    ELSE <<Task(word, SPELL, FALSE, <<>>)>>

\* The tasks pushed for one selected word, by box tier.
ReviewTasksOf(p, word) ==
    LET stats == getWordStats(p, word)
    IN  IF stats.box <= 1
        THEN <<Task(word, LEARN, FALSE, <<>>), Task(word, ASSEMBLE, FALSE, <<>>)>>
        ELSE IF stats.box <= 3
        THEN <<Task(word, SCRAMBLE, FALSE, <<>>), Task(word, SPELL, FALSE, <<>>)>>
        ELSE <<Task(word, SPELL, FALSE, <<>>)>>

RECURSIVE ReviewTasks(_, _)
ReviewTasks(p, words) ==
    IF words = <<>> THEN <<>>
    ELSE ReviewTasksOf(p, words[1]) \o ReviewTasks(p, Tail(words))

ReviewQueue(p, t, r) ==
    LET sessionWords == Slice(SortedCandidates(p, t, r), 0, REVIEW_WORDS)
        tasks == ReviewTasks(p, sessionWords)
    IN  IF Len(sessionWords) >= MATCH_GROUP
        THEN Append(tasks, Task(sessionWords[1], MATCH, FALSE,
                                Slice(sessionWords, 0, MATCH_GROUP)))
        ELSE tasks

----------------------------------------------------------------------------
\* handleTaskComplete and finishSession. cl is the closure of the handler:
\* the state values of the render the handler belongs to. prev is the value
\* a functional updater receives.

\* The values a handler of the current render captures.
Closure ==
    [progress |-> progress, taskQueue |-> taskQueue,
     currentTaskIndex |-> currentTaskIndex, combo |-> combo,
     sessionXpGained |-> sessionXpGained, sessionErrors |-> sessionErrors,
     sessionMode |-> sessionMode, appState |-> appState, isFlipped |-> isFlipped,
     now |-> now]

\* const currentTask = taskQueue[currentTaskIndex]
CurrentTask(cl) == cl.taskQueue[cl.currentTaskIndex + 1]

\* The task on screen, if any (renderSession).
HasCurrentTask(cl) == cl.currentTaskIndex < Len(cl.taskQueue)

\* Mutant of XpGain: the combo counted after its increment.
XpGain_AfterIncrement(cl, success) ==
    IF success THEN XP_BASE + (cl.combo + 1) * XP_PER_COMBO ELSE 0

\* xpGain of the outcome.
XpGain(cl, success) == IF success THEN XP_BASE + cl.combo * XP_PER_COMBO ELSE 0

\* Mutant of NewBox: the box is not capped.
NewBox_NoCap(oldStat, currentTask) ==
    IF currentTask.type # LEARN THEN oldStat.box + 1 ELSE oldStat.box

\* Mutant of NewBox: a LEARN task promotes the word like any other task.
NewBox_LearnToo(oldStat, currentTask) == Min(oldStat.box + 1, MAX_BOX)

\* newBox of a success.
NewBox(oldStat, currentTask) ==
    IF currentTask.type # LEARN THEN Min(oldStat.box + 1, MAX_BOX) ELSE oldStat.box

\* Mutant of GradesSuccess: retry copies are graded too.
GradesSuccess_RetryToo(currentTask) == currentTask.type # MATCH

\* Mutant of GradesSuccess: MATCH tasks are graded too.
GradesSuccess_MatchToo(currentTask) == ~currentTask.isRetry

\* The success branch guards its setProgress by this.
GradesSuccess(currentTask) == ~currentTask.isRetry /\ currentTask.type # MATCH

\* The failure branch guards its setProgress and its setTaskQueue by this.
GradesFailure(currentTask) == currentTask.type # MATCH

\* Mutant of StatAfterSuccess: the interval is taken for the old box.
StatAfterSuccess_OldBoxInterval(oldStat, currentTask, t) ==
    [oldStat EXCEPT !.box = NewBox(oldStat, currentTask),
                    !.consecutiveCorrect = oldStat.consecutiveCorrect + 1,
                    !.nextReviewDate = getNextReviewTime(oldStat.box, t)]

\* The record a success writes for the word.
StatAfterSuccess(oldStat, currentTask, t) ==
    [oldStat EXCEPT !.box = NewBox(oldStat, currentTask),
                    !.consecutiveCorrect = oldStat.consecutiveCorrect + 1,
                    !.nextReviewDate = getNextReviewTime(NewBox(oldStat, currentTask), t)]

\* Mutant of StatAfterFailure: the word is demoted by one box only.
StatAfterFailure_Demote(oldStat, t) ==
    [oldStat EXCEPT !.box = Max(oldStat.box - 1, 0), !.consecutiveCorrect = 0,
                    !.nextReviewDate = t]

\* The record a failure writes for the word.
StatAfterFailure(oldStat, t) ==
    [oldStat EXCEPT !.box = 0, !.consecutiveCorrect = 0, !.nextReviewDate = t]

\* The setProgress updaters of handleTaskComplete, applied to prev.
ProgressAfterOutcome(cl, prev, success, t) ==
    LET currentTask == CurrentTask(cl)
        wordId == currentTask.word
        oldStat == getWordStats(cl.progress, wordId)
    IN  IF success
        THEN IF GradesSuccess(currentTask)
             THEN [prev EXCEPT !.wordStats =
                       Put(prev.wordStats, wordId, StatAfterSuccess(oldStat, currentTask, t))]
             ELSE prev
        ELSE IF GradesFailure(currentTask)
             THEN [prev EXCEPT !.wordStats =
                       Put(prev.wordStats, wordId, StatAfterFailure(oldStat, t))]
             ELSE prev

\* Mutant of RetryType: the retry exercise always has the failed task's type.
RetryType_Same(currentTask) == currentTask.type

\* retryType
RetryType(currentTask) == IF currentTask.type = SCRAMBLE THEN ASSEMBLE ELSE currentTask.type

\* Mutant of PenaltySplice: only the retry exercise is inserted.
PenaltySplice_RetryOnly(remaining, currentTask) ==
    Splice(remaining, 2, Task(currentTask.word, RetryType(currentTask), TRUE, <<>>))

\* Mutant of PenaltySplice: the retry exercise directly behind the LEARN penalty.
PenaltySplice_Adjacent(remaining, currentTask) ==
    Splice(Splice(remaining, 0, Task(currentTask.word, LEARN, TRUE, <<>>)),
           1, Task(currentTask.word, RetryType(currentTask), TRUE, <<>>))

\* Mutant of PenaltySplice: the LEARN penalty behind the task that was next.
PenaltySplice_LearnSecond(remaining, currentTask) ==
    Splice(Splice(remaining, 1, Task(currentTask.word, LEARN, TRUE, <<>>)),
           2, Task(currentTask.word, RetryType(currentTask), TRUE, <<>>))

\* newQueue: the remaining tasks with the two penalty tasks spliced in.
PenaltySplice(remaining, currentTask) ==
    LET penaltyLearn == Task(currentTask.word, LEARN, TRUE, <<>>)
        penaltyRetry == Task(currentTask.word, RetryType(currentTask), TRUE, <<>>)
    IN  Splice(Splice(remaining, 0, penaltyLearn), 2, penaltyRetry)

\* The setTaskQueue updater of handleTaskComplete, applied to prev.
QueueAfterOutcome(cl, prev, success) ==
    LET currentTask == CurrentTask(cl)
    IN  IF ~success /\ GradesFailure(currentTask)
        THEN Slice(prev, 0, cl.currentTaskIndex + 1)
             \o PenaltySplice(SliceFrom(prev, cl.currentTaskIndex + 1), currentTask)
        ELSE prev

\* if (currentTaskIndex < taskQueue.length - 1) ... else finishSession()
IsLastTask(cl) == ~(cl.currentTaskIndex < Len(cl.taskQueue) - 1)

\* tasksCount of finishSession
TasksCount(queue) == Len(SelectSeq(queue, LAMBDA t : ~t.isRetry /\ t.type # LEARN))

\* stars of finishSession. errors <= tasksCount * 0.1 is decided on integers:
\* in floating point tasksCount * 0.1 is never below tasksCount / 10.
Stars(errors, tasksCount) ==
    IF errors = 0 THEN 3
    ELSE IF errors * 10 <= tasksCount THEN 2
    ELSE 1

\* newStreak of finishSession, t being the time of new Date().
NewStreak(prev, t) ==
    LET isSameDay == getDate(prev.lastStudyDate) = getDate(t)
                     /\ getMonth(prev.lastStudyDate) = getMonth(t)
        isYesterday == (t - prev.lastStudyDate) < TWO_DAYS /\ ~isSameDay
    IN  IF isYesterday THEN prev.dayStreak + 1
        ELSE IF ~isSameDay THEN 1
        ELSE prev.dayStreak

\* The words of the non-retry LEARN tasks.
RECURSIVE LearnedWordIds(_)
LearnedWordIds(queue) ==
    IF queue = <<>> THEN <<>>
    ELSE IF queue[1].type = LEARN /\ ~queue[1].isRetry
         THEN <<queue[1].word>> \o LearnedWordIds(Tail(queue))
         ELSE LearnedWordIds(Tail(queue))

\* Mutant of LessonStatsAfter: the new stars replace the old ones.
LessonStatsAfter_Overwrite(prev, stars) ==
    Put(prev.lessonStats, prev.currentLessonIndex,
        [lessonIndex |-> prev.currentLessonIndex, stars |-> stars, isCompleted |-> TRUE])

\* The lesson statistics finishSession writes for a LESSON session.
LessonStatsAfter(prev, stars) ==
    LET idx == prev.currentLessonIndex
        currentLessonStats ==
            IF idx \in DOMAIN prev.lessonStats THEN prev.lessonStats[idx]
            ELSE [lessonIndex |-> idx, stars |-> 0, isCompleted |-> FALSE]
    IN  Put(prev.lessonStats, idx,
            [currentLessonStats EXCEPT !.stars = Max(currentLessonStats.stars, stars),
                                       !.isCompleted = TRUE])

\* The session XP finishSession adds to totalXp: the value its closure holds.
FinishXp(cl) == cl.sessionXpGained

\* The error count finishSession rates: the value its closure holds.
FinishErrors(cl) == cl.sessionErrors

\* The queue finishSession reads: the one its closure holds.
FinishQueue(cl) == cl.taskQueue

\* stars as finishSession computes them.
FinishStars(cl) == Stars(FinishErrors(cl), TasksCount(FinishQueue(cl)))

\* Mutant of finishSession: the lesson bookkeeping is done in every mode.
finishSession_AnyMode(cl, prev, t) ==
    [prev EXCEPT
        !.completedWordIds = Dedup(prev.completedWordIds \o LearnedWordIds(FinishQueue(cl))),
        !.lastStudyDate = t,
        !.totalXp = prev.totalXp + FinishXp(cl),
        !.dayStreak = NewStreak(prev, t),
        !.lessonStats = LessonStatsAfter(prev, FinishStars(cl))]

\* Mutant of finishSession: a finished lesson makes the next lesson current.
finishSession_NextLesson(cl, prev, t) ==
    LET isLesson == cl.sessionMode = "LESSON"
    IN  [prev EXCEPT
            !.currentLessonIndex = IF isLesson THEN @ + 1 ELSE @,
            !.completedWordIds =
                IF isLesson THEN Dedup(prev.completedWordIds \o LearnedWordIds(FinishQueue(cl)))
                ELSE prev.completedWordIds,
            !.lastStudyDate = t,
            !.totalXp = prev.totalXp + FinishXp(cl),
            !.dayStreak = NewStreak(prev, t),
            !.lessonStats =
                IF isLesson THEN LessonStatsAfter(prev, FinishStars(cl))
                ELSE prev.lessonStats]

\* The setProgress updater of finishSession, applied to prev.
finishSession(cl, prev, t) ==
    LET isLesson == cl.sessionMode = "LESSON"
    IN  [prev EXCEPT
            !.completedWordIds =
                IF isLesson THEN Dedup(prev.completedWordIds \o LearnedWordIds(FinishQueue(cl)))
                ELSE prev.completedWordIds,
            !.lastStudyDate = t,
            !.totalXp = prev.totalXp + FinishXp(cl),
            !.dayStreak = NewStreak(prev, t),
            !.lessonStats =
                IF isLesson THEN LessonStatsAfter(prev, FinishStars(cl))
                ELSE prev.lessonStats]

\* The outcomes the session screen reports for a task: a LEARN card has only
\* its "next" button (handleTaskComplete(true)); a QuestionCard reports
\* onAnswer(true) from handleCorrect and onAnswer(false) from handleWrong,
\* which does not report for a MATCH task.
Outcomes(currentTask) ==
    IF currentTask.type \in {LEARN, MATCH} THEN {TRUE} ELSE BOOLEAN

----------------------------------------------------------------------------
\* The MATCH game of the question card (component state of QuestionCard).

\* A card of the game: `en-${w.id}` or `ch-${w.id}`.
MatchCard(type, wordId) == [type |-> type, wordId |-> wordId, isMatched |-> FALSE]

\* The id of a card.
CardId(c) == [type |-> c.type, wordId |-> c.wordId]

\* The component state when no MATCH game is shown (the useState initial
\* values; resetState). reported and mismatched are history: the calls of
\* handleCorrect and whether a mismatched pair was picked.
NoCard ==
    [status |-> "idle", matchCards |-> {}, matchSelection |-> <<>>,
     matchesFound |-> 0, timer |-> <<>>, reported |-> 0, mismatched |-> FALSE]

\* setupMatch after resetState: two cards for each word of the group, none
\* matched (the order they are shown in is shuffled).
setupMatch(groupWords) ==
    [NoCard EXCEPT !.matchCards =
        {MatchCard(type, groupWords[i]) : type \in {"en", "ch"},
                                         i \in 1..Len(groupWords)}]

\* The game of the card mounted for position idx of queue on screen state:
\* the card is keyed by its task, so every task gets a new component.
CardOf(queue, idx, state) ==
    IF state = SESSION /\ idx < Len(queue) /\ queue[idx + 1].type = MATCH
    THEN setupMatch(queue[idx + 1].groupWords)
    ELSE NoCard

----------------------------------------------------------------------------
\* The service worker (sw.js): its fetch listener answers the page's requests
\* from the network or from its cache.

\* The requests looked at: the page, a script of the app and a module of a CDN.
Requests ==
    {[hostname |-> "app", pathname |-> "./index.html"],
     [hostname |-> "app", pathname |-> "./index.js"],
     [hostname |-> "esm.sh", pathname |-> "/react"]}

\* PRECACHE_URLS, of the requests looked at.
PRECACHE_URLS == {[hostname |-> "app", pathname |-> "./index.html"]}

\* The test of the fetch listener's first branch: a CDN host, or a path ending
\* in .js, .css, .png or .mp3 (of the paths looked at, ./index.js).
IsAsset(request) ==
    \/ request.hostname \in {"esm.sh", "tailwindcss.com", "googleapis.com",
                             "gstatic.com", "flaticon.com"}
    \/ request.pathname \in {"./index.js"}

\* caches.match finds nothing (undefined).
NoEntry == -1

\* After install and activate: the precached URLs are in the cache in the
\* version the server had, nothing else is, and no request was answered yet.
Installed ==
    [cache |-> [request \in Requests |-> IF request \in PRECACHE_URLS THEN 0 ELSE NoEntry],
     server |-> [request \in Requests |-> 0],
     response |-> [request |-> [hostname |-> "", pathname |-> ""], asset |-> FALSE,
                   hit |-> FALSE, fetched |-> FALSE, outcome |-> "", from |-> "",
                   version |-> NoEntry]]

----------------------------------------------------------------------------
\* The state machine.

\* The record kept of a handler call: the state it started from (pre), the
\* closure it ran with (cl) and whether the session it was scheduled in has
\* been exited since (stale).
CallWith(op, success, cl, stale) ==
    [op |-> op, success |-> success, pre |-> Closure, cl |-> cl, stale |-> stale]

\* A handler called by the current render.
Call(op, success) == CallWith(op, success, Closure, FALSE)

\* The state after construction (useState initial values) with saved in
\* storage, for a catalog and an exploration budget. The record of the
\* construction tells whether a stored progress was read.
InitRead(catalog, budget, saved) ==
    /\ WORD_LIST = catalog
    /\ now = StartTime
    /\ progress = getInitialProgressFrom(saved, StartTime)
    /\ appState = DASHBOARD
    /\ sessionMode = "LESSON"
    /\ taskQueue = <<>>
    /\ currentTaskIndex = 0
    /\ combo = 0
    /\ sessionXpGained = 0
    /\ sessionErrors = 0
    /\ isFlipped = FALSE
    /\ pending = <<>>
    /\ reminder = [permission |-> "default", lastNotified |-> <<>>,
                   day |-> StartTime \div oneDay,
                   minute |-> (StartTime % oneDay) * 12 * 60, shown |-> <<>>]
    /\ card = NoCard
    /\ sw = Installed
    /\ successRun = 0
    /\ effort = budget
    /\ last = LET fresh == [progress |-> getInitialProgressFrom(saved, StartTime),
                            taskQueue |-> <<>>,
                            currentTaskIndex |-> 0, combo |-> 0, sessionXpGained |-> 0,
                            sessionErrors |-> 0, sessionMode |-> "LESSON",
                            appState |-> DASHBOARD, isFlipped |-> FALSE, now |-> StartTime]
              IN  [op |-> "init", success |-> saved.kind \in {"null", "object"},
                   pre |-> fresh, cl |-> fresh, stale |-> FALSE]

\* The state after construction with nothing stored: the default progress.
InitWith(catalog, budget) == InitRead(catalog, budget, NoItem)

\* A small catalog, explored with the whole budget.
Init == InitWith(Catalog(CatalogSize), MaxEffort)

\* A catalog of exactly one full lesson, explored with a small budget.
LessonInit == InitWith(Catalog(WORDS_PER_LESSON), LessonEffort)

\* The state updates startSession and startReviewSession share.
EnterSession(queue, mode) ==
    /\ taskQueue' = queue
    /\ currentTaskIndex' = 0
    /\ combo' = 0
    /\ sessionXpGained' = 0
    /\ sessionErrors' = 0
    /\ isFlipped' = FALSE
    /\ sessionMode' = mode
    /\ appState' = SESSION
    /\ successRun' = 0
    /\ effort' = effort - 1
    /\ card' = CardOf(queue, 0, SESSION)
    /\ UNCHANGED <<pending, reminder, sw>>

\* startSession(): the dashboard's start button, on the current lesson.
startSession(r) ==
    /\ appState = DASHBOARD
    /\ effort > 0
    /\ EnterSession(LessonQueue(progress.currentLessonIndex, r), "LESSON")
    /\ last' = Call("startSession", TRUE)
    /\ UNCHANGED <<WORD_LIST, now, progress>>

\* Mutant of selectLesson: the lesson picked is not recorded.
selectLesson_KeepIndex(specificLessonIndex, r) ==
    /\ appState = COURSES
    /\ effort > 0
    /\ EnterSession(LessonQueue(specificLessonIndex, r), "LESSON")
    /\ last' = Call("selectLesson", TRUE)
    /\ UNCHANGED <<WORD_LIST, now, progress>>

\* startSession(idx): a lesson picked in the course list.
selectLesson(specificLessonIndex, r) ==
    /\ appState = COURSES
    /\ effort > 0
    /\ EnterSession(LessonQueue(specificLessonIndex, r), "LESSON")
    /\ progress' = [progress EXCEPT !.currentLessonIndex = specificLessonIndex]
    /\ last' = Call("selectLesson", TRUE)
    /\ UNCHANGED <<WORD_LIST, now>>

\* Mutant of startReviewSession: the session is entered without the check
\* for candidates.
startReviewSession_NoCheck(r) ==
    /\ appState = DASHBOARD
    /\ effort > 0
    /\ EnterSession(ReviewQueue(progress, now, r), "REVIEW")
    /\ last' = Call("startReviewSession", TRUE)
    /\ UNCHANGED <<WORD_LIST, now, progress>>

\* startReviewSession: nothing to review (the alert), or a review session.
startReviewSession(r) ==
    /\ appState = DASHBOARD
    /\ IF CandidateIds(progress) = {}
       THEN /\ last' = Call("startReviewSession", FALSE)
            /\ UNCHANGED <<WORD_LIST, now, progress, appState, sessionMode, taskQueue,
                           currentTaskIndex, combo, sessionXpGained, sessionErrors,
                           isFlipped, pending, reminder, sw, card, successRun, effort>>
       ELSE /\ effort > 0
            /\ EnterSession(ReviewQueue(progress, now, r), "REVIEW")
            /\ last' = Call("startReviewSession", TRUE)
            /\ UNCHANGED <<WORD_LIST, now, progress>>

\* onFlip of the LEARN card: setIsFlipped(true). On a card already flipped it
\* changes nothing.
flip ==
    /\ appState = SESSION
    /\ HasCurrentTask(Closure)
    /\ CurrentTask(Closure).type = LEARN
    /\ ~isFlipped
    /\ isFlipped' = TRUE
    /\ last' = Call("flip", TRUE)
    /\ UNCHANGED <<WORD_LIST, now, progress, appState, sessionMode, taskQueue,
                   currentTaskIndex, combo, sessionXpGained, sessionErrors,
                   pending, reminder, sw, card, successRun, effort>>

\* handleTaskComplete(success), called by the render whose closure is cl.
handleTaskComplete(cl, success) ==
    LET graded == ProgressAfterOutcome(cl, progress, success, now)
    IN  /\ combo' = IF success THEN combo + 1 ELSE 0
        /\ sessionErrors' = IF success THEN sessionErrors ELSE sessionErrors + 1
        /\ taskQueue' = QueueAfterOutcome(cl, taskQueue, success)
        /\ sessionXpGained' = sessionXpGained + XpGain(cl, success)
        /\ IF ~IsLastTask(cl)
           THEN /\ currentTaskIndex' = currentTaskIndex + 1
                /\ isFlipped' = FALSE
                /\ progress' = graded
                /\ UNCHANGED appState
           ELSE /\ progress' = finishSession(cl, graded, now)
                /\ appState' = SUMMARY
                /\ UNCHANGED <<currentTaskIndex, isFlipped>>
        /\ card' = CardOf(taskQueue', currentTaskIndex', appState')
        /\ UNCHANGED <<WORD_LIST, now, sessionMode, reminder, sw>>

\* An answer given on the session screen, reported to handleTaskComplete
\* before anything else happens: the LEARN card's button calls it directly, a
\* question card calls it from its timer, here fired undisturbed.
answer(success) ==
    /\ appState = SESSION
    /\ HasCurrentTask(Closure)
    /\ success \in Outcomes(CurrentTask(Closure))
    /\ CurrentTask(Closure).type = LEARN => isFlipped
    /\ ~success => effort > 0
    /\ handleTaskComplete(Closure, success)
    /\ successRun' = IF success THEN successRun + 1 ELSE 0
    /\ effort' = IF success THEN effort ELSE effort - 1
    /\ last' = Call("handleTaskComplete", success)
    /\ UNCHANGED pending

\* A setAppState(target) button shown on screen from.
navigate(from, target, op) ==
    /\ appState = from
    /\ appState' = target
    /\ card' = CardOf(taskQueue, currentTaskIndex, target)
    /\ last' = Call(op, TRUE)
    /\ UNCHANGED <<WORD_LIST, now, progress, sessionMode, taskQueue, currentTaskIndex,
                   combo, sessionXpGained, sessionErrors, isFlipped, reminder, sw,
                   successRun>>

openCourses == navigate(DASHBOARD, COURSES, "openCourses") /\ UNCHANGED <<pending, effort>>

closeCourses == navigate(COURSES, DASHBOARD, "closeCourses") /\ UNCHANGED <<pending, effort>>

\* The exit button of the session screen. The session screen and its card are
\* unmounted; the card's timer is not cleared and stays pending.
exitSession ==
    /\ effort > 0
    /\ navigate(SESSION, DASHBOARD, "exitSession")
    /\ pending' = [k \in 1..Len(pending) |->
                      [pending[k] EXCEPT !.mounted = FALSE, !.exited = TRUE]]
    /\ effort' = effort - 1

closeSummary == navigate(SUMMARY, DASHBOARD, "closeSummary") /\ UNCHANGED <<pending, effort>>

\* Time passes. A session is short against the 12 h unit of the clock: the
\* clock is advanced between sessions, on the dashboard (no handler of the
\* course list or of the summary reads the clock).
tick(d) ==
    /\ appState = DASHBOARD
    /\ effort > 0
    /\ now' = now + d
    /\ effort' = effort - 1
    /\ last' = Call("tick", TRUE)
    /\ UNCHANGED <<WORD_LIST, progress, appState, sessionMode, taskQueue,
                   currentTaskIndex, combo, sessionXpGained, sessionErrors, isFlipped,
                   pending, reminder, sw, card, successRun>>

Next ==
    \/ \E r \in 0..MaxRand : startSession(r)
    \/ \E idx \in 0..(TOTAL_LESSONS - 1), r \in 0..MaxRand : selectLesson(idx, r)
    \/ \E r \in 0..MaxRand : startReviewSession(r)
    \/ flip
    \/ \E success \in BOOLEAN : answer(success)
    \/ openCourses
    \/ closeCourses
    \/ exitSession
    \/ closeSummary
    \/ \E d \in TickSteps : tick(d)

Spec == Init /\ [][Next]_vars

LessonSpec == LessonInit /\ [][Next]_vars

\* A catalog of one word (a lesson of 6 tasks), explored with a budget that
\* lets several days pass between two finished sessions.
StreakInit == InitWith(Catalog(1), StreakEffort)

StreakSpec == StreakInit /\ [][Next]_vars

\* A catalog of two lessons (6 words and 1 word), explored with a small budget.
CourseInit == InitWith(Catalog(WORDS_PER_LESSON + 1), CourseEffort)

CourseSpec == CourseInit /\ [][Next]_vars

----------------------------------------------------------------------------
\* Persistence across page loads.

\* The page is loaded again: the app is constructed anew from what the
\* persistence effect last wrote; timers of the old page are gone.
reload ==
    /\ effort > 0
    /\ progress' = getInitialProgressFrom(setItem(progress), now)
    /\ appState' = DASHBOARD
    /\ sessionMode' = "LESSON"
    /\ taskQueue' = <<>>
    /\ currentTaskIndex' = 0
    /\ combo' = 0
    /\ sessionXpGained' = 0
    /\ sessionErrors' = 0
    /\ isFlipped' = FALSE
    /\ pending' = <<>>
    /\ card' = NoCard
    /\ successRun' = 0
    /\ effort' = effort - 1
    /\ last' = Call("reload", TRUE)
    /\ UNCHANGED <<WORD_LIST, now, reminder, sw>>

\* What the first construction may find in storage.
StoredAtFirst ==
    {NoItem, NotJson, JsonNull,
     JsonObject([totalXp |-> ToDigits(XP_BASE), dayStreak |-> ToDigits(1)])}

StoreInit == \E saved \in StoredAtFirst : InitRead(Catalog(1), StoreEffort, saved)

StoreNext ==
    \/ Next
    \/ reload

StoreSpec == StoreInit /\ [][StoreNext]_vars

----------------------------------------------------------------------------
\* The reminder: an interval timer calls checkReminder every 15 s. The wall
\* clock it reads is kept in minutes (reminder.day, reminder.minute).

\* The reminder times the learner picks among, and the minutes of a day at
\* which something is looked at: each reminder time and the minute after.
ReminderTimes == {"08:05", "20:00"}

MinutesLookedAt == {8 * 60 + 5, 8 * 60 + 6, 20 * 60, 20 * 60 + 1}

\* currentTime: hours and minutes, each padded to two digits.
ClockText(minute) ==
    LET hours == minute \div 60
        minutes == minute % 60
    IN  CASE hours = 8 /\ minutes = 5 -> "08:05"
          [] hours = 8 /\ minutes = 6 -> "08:06"
          [] hours = 20 /\ minutes = 0 -> "20:00"
          [] hours = 20 /\ minutes = 1 -> "20:01"
          [] OTHER -> "hh:mm"

\* Mutant of ReminderDue: the day of the last notification is not compared.
ReminderDue_EveryCheck(p, rem) ==
    p.reminderEnabled /\ ClockText(rem.minute) = p.reminderTime

\* checkReminder gets to the permission test: reminders are enabled, the
\* clock shows the reminder time and today's date is not the stored one.
ReminderDue(p, rem) ==
    /\ p.reminderEnabled
    /\ ClockText(rem.minute) = p.reminderTime
    /\ rem.lastNotified # <<rem.day>>

\* What the reminder actions leave alone.
SessionUntouched ==
    UNCHANGED <<WORD_LIST, now, appState, sessionMode, taskQueue, currentTaskIndex,
                combo, sessionXpGained, sessionErrors, isFlipped, pending, card,
                sw, successRun>>

\* One call of checkReminder by the interval timer. The call is recorded as
\* successful when it shows the notification.
checkReminder ==
    LET notify == ReminderDue(progress, reminder) /\ reminder.permission = "granted"
    IN  /\ effort > 0
        /\ reminder' =
               IF notify
               THEN [reminder EXCEPT
                        !.lastNotified = <<reminder.day>>,
                        !.shown = Append(@, [day |-> reminder.day,
                                             enabled |-> progress.reminderEnabled,
                                             permission |-> reminder.permission])]
               ELSE reminder
        /\ effort' = effort - 1
        /\ last' = Call("checkReminder", notify)
        /\ SessionUntouched
        /\ UNCHANGED progress

\* The reminder switch of the dashboard; switching it on asks for the
\* permission, which the learner grants or denies if it is still open.
setReminderEnabled(enabled, result) ==
    /\ appState = DASHBOARD
    /\ effort > 0
    /\ progress' = [progress EXCEPT !.reminderEnabled = enabled]
    /\ reminder' = IF enabled /\ reminder.permission = "default"
                   THEN [reminder EXCEPT !.permission = result]
                   ELSE reminder
    /\ effort' = effort - 1
    /\ last' = Call("setReminderEnabled", enabled)
    /\ SessionUntouched

\* The time input shown while reminders are enabled.
setReminderTime(time) ==
    /\ appState = DASHBOARD
    /\ progress.reminderEnabled
    /\ effort > 0
    /\ progress' = [progress EXCEPT !.reminderTime = time]
    /\ effort' = effort - 1
    /\ last' = Call("setReminderTime", TRUE)
    /\ SessionUntouched
    /\ UNCHANGED <<reminder, sw>>

\* The wall clock moves on to a later minute of the day, or to the next day.
clockMoves(day, minute) ==
    /\ effort > 0
    /\ day \in {reminder.day, reminder.day + 1}
    /\ day = reminder.day => minute > reminder.minute
    /\ reminder' = [reminder EXCEPT !.day = day, !.minute = minute]
    /\ effort' = effort - 1
    /\ last' = Call("clockMoves", TRUE)
    /\ SessionUntouched
    /\ UNCHANGED progress

ReminderNext ==
    \/ checkReminder
    \/ \E enabled \in BOOLEAN, result \in {"granted", "denied"} :
           setReminderEnabled(enabled, result)
    \/ \E time \in ReminderTimes : setReminderTime(time)
    \/ \E day \in 0..MaxDay, minute \in MinutesLookedAt : clockMoves(day, minute)

ReminderInit == InitWith(Catalog(1), ReminderEffort)

ReminderSpec == ReminderInit /\ [][ReminderNext]_vars

----------------------------------------------------------------------------
\* Review sessions over a progress loaded from storage.

\* A progress earlier use left in storage: the first n words of the catalog
\* completed; three of four of them have a record, with boxes spread over
\* 0..5 by the stride m and every third one not yet due.
StoredProgress(n, m) ==
    [getInitialProgress(StartTime) EXCEPT
        !.completedWordIds = [i \in 1..n |-> i],
        !.wordStats = [w \in {i \in 1..n : i % 4 # 0} |->
                          [wordId |-> w, box |-> (w * m) % (MAX_BOX + 1),
                           nextReviewDate |-> IF w % 3 = 0 THEN StartTime + oneDay ELSE 0,
                           consecutiveCorrect |-> 0]]]

ReviewInit ==
    \E n \in 0..ReviewCatalogSize, m \in 1..MaxStride :
        InitRead(Catalog(ReviewCatalogSize), ReviewEffort, setItem(StoredProgress(n, m)))

\* Review sessions only: started, answered and closed.
ReviewNext ==
    \/ \E r \in 0..MaxRand : startReviewSession(r)
    \/ flip
    \/ \E success \in BOOLEAN : answer(success)
    \/ closeSummary

ReviewSpec == ReviewInit /\ [][ReviewNext]_vars

----------------------------------------------------------------------------
\* The question card's timers. handleCorrect and handleWrong do not call
\* onAnswer but schedule the call (setTimeout, 1000 ms and 1500 ms); the
\* timer is never cleared, so the scheduled call also fires after the card
\* was unmounted, with the handleTaskComplete of the render that was current
\* when the answer was given.

\* Every timer still pending belongs to a card that is no longer shown.
Unmounted(timers) == [k \in 1..Len(timers) |-> [timers[k] EXCEPT !.mounted = FALSE]]

\* The timers without timer k.
Without(timers, k) == SubSeq(timers, 1, k - 1) \o SubSeq(timers, k + 1, Len(timers))

\* Mutant of CardIdle: the card takes input whatever its status.
CardIdle_Always == TRUE

\* The card shown is idle: it has no timer pending (status = 'idle').
CardIdle == \A k \in 1..Len(pending) : ~pending[k].mounted

\* The LEARN card's button: handleTaskComplete(true), called directly.
learnNext ==
    /\ appState = SESSION
    /\ HasCurrentTask(Closure)
    /\ CurrentTask(Closure).type = LEARN
    /\ isFlipped
    /\ handleTaskComplete(Closure, TRUE)
    /\ successRun' = successRun + 1
    /\ pending' = Unmounted(pending)
    /\ last' = Call("handleTaskComplete", TRUE)
    /\ UNCHANGED effort

\* An answer given on a question card: handleCorrect or handleWrong starts
\* the timer. A card that is not idle ignores the input.
submitAnswer(success) ==
    /\ appState = SESSION
    /\ HasCurrentTask(Closure)
    /\ CurrentTask(Closure).type # LEARN
    /\ success \in Outcomes(CurrentTask(Closure))
    /\ CardIdle
    /\ Len(pending) < MaxPending
    /\ ~success => effort > 0
    /\ pending' = Append(pending, [cl |-> Closure, success |-> success,
                                   mounted |-> TRUE, exited |-> FALSE])
    /\ effort' = IF success THEN effort ELSE effort - 1
    /\ last' = Call("submitAnswer", success)
    /\ UNCHANGED <<WORD_LIST, now, progress, appState, sessionMode, taskQueue,
                   currentTaskIndex, combo, sessionXpGained, sessionErrors,
                   isFlipped, reminder, sw, card, successRun>>

\* Timer k fires: onAnswer(success) of the render that scheduled it. Whatever
\* it changes (index, queue, screen) replaces the card shown.
timerFires(k) ==
    /\ k \in 1..Len(pending)
    /\ handleTaskComplete(pending[k].cl, pending[k].success)
    /\ successRun' = IF pending[k].success THEN successRun + 1 ELSE 0
    /\ pending' = Unmounted(Without(pending, k))
    /\ last' = CallWith("handleTaskComplete", pending[k].success, pending[k].cl,
                        pending[k].exited)
    /\ UNCHANGED effort

\* The app with its timers: an answer and its report are two steps, and
\* the learner may act in between.
TimerNext ==
    \/ \E r \in 0..MaxRand : startSession(r)
    \/ \E idx \in 0..(TOTAL_LESSONS - 1), r \in 0..MaxRand : selectLesson(idx, r)
    \/ \E r \in 0..MaxRand : startReviewSession(r)
    \/ flip
    \/ learnNext
    \/ \E success \in BOOLEAN : submitAnswer(success)
    \/ \E k \in 1..MaxPending : timerFires(k)
    \/ openCourses
    \/ closeCourses
    \/ exitSession
    \/ closeSummary

\* A catalog of one word (a lesson of 6 tasks), explored with its own budget.
TimerInit == InitWith(Catalog(1), TimerEffort)

TimerSpec == TimerInit /\ [][TimerNext]_vars

----------------------------------------------------------------------------
\* The MATCH game, card by card. A click that completes a pair starts a
\* timer (300 ms for a matched pair, 800 ms for a mismatched one); the
\* game reports through handleCorrect only.

\* The MATCH card is on screen.
MatchShown ==
    /\ appState = SESSION
    /\ HasCurrentTask(Closure)
    /\ CurrentTask(Closure).type = MATCH

\* Mutant of MatchComplete: the first matched pair completes the game.
MatchComplete_FirstPair(newVal, groupWords) == newVal >= 1

\* groupWords && newVal >= groupWords.length
MatchComplete(newVal, groupWords) == newVal >= Len(groupWords)

\* handleMatchCardClick(cardId). The click is ignored while the status is
\* 'wrong' or 'correct', on a matched card and on a selected card.
handleMatchCardClick(cardId) ==
    LET newSelection == Append(card.matchSelection, cardId)
        pair == [kind |-> "", card1 |-> newSelection[1],
                 card2 |-> newSelection[2], cl |-> Closure]
    IN  /\ MatchShown
        /\ card.status \notin {"wrong", "correct"}
        /\ \E c \in card.matchCards : CardId(c) = cardId /\ ~c.isMatched
        /\ ~Includes(card.matchSelection, cardId)
        /\ card' =
               IF Len(newSelection) # 2
               THEN [card EXCEPT !.matchSelection = newSelection]
               ELSE IF newSelection[1].wordId = newSelection[2].wordId
               THEN [card EXCEPT !.matchSelection = newSelection,
                                 !.timer = <<[pair EXCEPT !.kind = "match"]>>]
               ELSE [card EXCEPT !.matchSelection = newSelection,
                                 !.status = "wrong",
                                 !.timer = <<[pair EXCEPT !.kind = "mismatch"]>>,
                                 !.mismatched = TRUE]
        /\ last' = Call("handleMatchCardClick", TRUE)
        /\ UNCHANGED <<WORD_LIST, now, progress, appState, sessionMode, taskQueue,
                       currentTaskIndex, combo, sessionXpGained, sessionErrors,
                       isFlipped, pending, reminder, sw, successRun, effort>>

\* The timer of a matched pair fires: both cards are marked, the selection
\* is cleared and matchesFound counted; the pair that completes the game
\* calls handleCorrect, which sets the status and schedules onAnswer(true)
\* of the render the pair was clicked in.
matchTimerFires ==
    /\ MatchShown
    /\ card.timer # <<>>
    /\ card.timer[1].kind = "match"
    /\ LET fired == card.timer[1]
           newVal == card.matchesFound + 1
           done == MatchComplete(newVal, CurrentTask(fired.cl).groupWords)
       IN  /\ card' =
                  [card EXCEPT
                      !.matchCards =
                          {IF CardId(c) \in {fired.card1, fired.card2}
                           THEN [c EXCEPT !.isMatched = TRUE] ELSE c : c \in @},
                      !.matchSelection = <<>>,
                      !.matchesFound = newVal,
                      !.timer = <<>>,
                      !.status = IF done THEN "correct" ELSE @,
                      !.reported = IF done THEN @ + 1 ELSE @]
           /\ pending' =
                  IF done
                  THEN Append(pending, [cl |-> fired.cl, success |-> TRUE,
                                        mounted |-> TRUE, exited |-> FALSE])
                  ELSE pending
           /\ last' = Call("matchTimer", done)
    /\ UNCHANGED <<WORD_LIST, now, progress, appState, sessionMode, taskQueue,
                   currentTaskIndex, combo, sessionXpGained, sessionErrors,
                   isFlipped, reminder, sw, successRun, effort>>

\* The timer of a mismatched pair fires: the status is idle again and the
\* selection cleared; nothing is reported.
mismatchTimerFires ==
    /\ MatchShown
    /\ card.timer # <<>>
    /\ card.timer[1].kind = "mismatch"
    /\ card' = [card EXCEPT !.status = "idle", !.matchSelection = <<>>,
                            !.timer = <<>>]
    /\ last' = Call("mismatchTimer", TRUE)
    /\ UNCHANGED <<WORD_LIST, now, progress, appState, sessionMode, taskQueue,
                   currentTaskIndex, combo, sessionXpGained, sessionErrors,
                   isFlipped, pending, reminder, sw, successRun, effort>>

\* An answer on a card other than the MATCH game.
answerCard(success) ==
    /\ ~MatchShown
    /\ answer(success)

\* A lesson session up to its MATCH game, played card by card.
MatchNext ==
    \/ \E r \in 0..MaxRand : startSession(r)
    \/ flip
    \/ \E success \in BOOLEAN : answerCard(success)
    \/ \E cardId \in [type : {"en", "ch"}, wordId : 1..MatchCatalogSize] :
           handleMatchCardClick(cardId)
    \/ matchTimerFires
    \/ mismatchTimerFires
    \/ \E k \in 1..MaxPending : timerFires(k)
    \/ closeSummary

\* A catalog of two words (a lesson with a game of four cards).
MatchSpec == InitWith(Catalog(MatchCatalogSize), MatchEffort) /\ [][MatchNext]_vars

----------------------------------------------------------------------------
\* The service worker's fetch listener and the server it fetches from.

\* What the service worker and the server leave alone: the page's state.
AppUntouched ==
    UNCHANGED <<WORD_LIST, now, progress, appState, sessionMode, taskQueue,
                currentTaskIndex, combo, sessionXpGained, sessionErrors, isFlipped,
                pending, reminder, card, successRun, effort>>

\* A new version of a resource is put on the server.
deploy(request) ==
    /\ sw.server[request] < MaxVersion
    /\ sw' = [sw EXCEPT !.server[request] = @ + 1]
    /\ last' = Call("deploy", TRUE)
    /\ AppUntouched

\* The asset branch: the cached response if there is one, and only
\* otherwise a network fetch, whose response with status 200 is put into the
\* cache; a rejected fetch is answered with status 503.
AssetResponse(cache, server, request, outcome) ==
    IF cache[request] # NoEntry
    THEN [request |-> request, asset |-> TRUE, hit |-> TRUE, fetched |-> FALSE,
          outcome |-> "", from |-> "cache", version |-> cache[request]]
    ELSE [request |-> request, asset |-> TRUE, hit |-> FALSE, fetched |-> TRUE,
          outcome |-> outcome,
          from |-> IF outcome = "rejected" THEN "offline" ELSE "network",
          version |-> IF outcome = "ok" THEN server[request] ELSE NoEntry]

\* The branch of everything else: the network response, put into the cache
\* if its status is 200; the cached response only if the fetch is rejected.
PageResponse(cache, server, request, outcome) ==
    [request |-> request, asset |-> FALSE, hit |-> cache[request] # NoEntry,
     fetched |-> TRUE, outcome |-> outcome,
     from |-> IF outcome = "rejected" THEN "cache" ELSE "network",
     version |-> IF outcome = "ok" THEN server[request]
                 ELSE IF outcome = "rejected" THEN cache[request]
                 ELSE NoEntry]

\* The fetch listener, for a request and what a network fetch for it would
\* come to.
onFetch(request, outcome) ==
    LET response == IF IsAsset(request)
                    THEN AssetResponse(sw.cache, sw.server, request, outcome)
                    ELSE PageResponse(sw.cache, sw.server, request, outcome)
        put == response.fetched /\ response.outcome = "ok"
    IN  /\ sw' = [sw EXCEPT
                     !.cache[request] = IF put THEN sw.server[request] ELSE @,
                     !.response = response]
        /\ last' = Call("onFetch", response.from # "offline")
        /\ AppUntouched

SwNext ==
    \/ \E request \in Requests : deploy(request)
    \/ \E request \in Requests, outcome \in {"ok", "error", "rejected"} :
           onFetch(request, outcome)

\* The worker beside the page just constructed, of which nothing is explored.
SwSpec == InitWith(Catalog(1), 0) /\ [][SwNext]_vars

----------------------------------------------------------------------------
\* Properties. They read the state a handler call leaves behind together
\* with the state it started from (last.pre).

\* The last step was an outcome submitted to handleTaskComplete.
Answered == last.op = "handleTaskComplete"

\* The task the outcome was submitted for.
AnsweredTask == last.pre.taskQueue[last.pre.currentTaskIndex + 1]

\* The last step finished the session.
Finished == Answered /\ appState = SUMMARY

\* The word's statistics before the call (the default record if it had none).
OldStat == getWordStats(last.pre.progress, AnsweredTask.word)

\* The outcome left a record for the word, with these values.
WroteStat(box, consecutiveCorrect, nextReviewDate) ==
    /\ AnsweredTask.word \in DOMAIN progress.wordStats
    /\ progress.wordStats[AnsweredTask.word] =
           [wordId |-> AnsweredTask.word, box |-> box,
            nextReviewDate |-> nextReviewDate, consecutiveCorrect |-> consecutiveCorrect]

\* The records of every other word are as they were.
OtherStatsKept ==
    /\ DOMAIN progress.wordStats \ {AnsweredTask.word}
           = DOMAIN last.pre.progress.wordStats \ {AnsweredTask.word}
    /\ \A w \in DOMAIN progress.wordStats \ {AnsweredTask.word} :
           progress.wordStats[w] = last.pre.progress.wordStats[w]

\* No record was written, created or removed.
WordStatsKept == progress.wordStats = last.pre.progress.wordStats

\* The review interval of a box, in clock units.
IntervalOf(box) == <<1, 2, 4, 7, 14, 30>>[box + 1] * oneDay

\* C1 (as claimed): when a session finishes, totalXp has grown by the session's
\* whole XP, the gain of the final outcome included.
\* In particular, from fresh progress the 28 tasks of lesson 0 all answered
\* correctly end with totalXp = 10 + 12 + ... + 64 = 1036.
C1_FinishAddsWholeSessionXp ==
    /\ Finished => progress.totalXp = last.pre.progress.totalXp + sessionXpGained
    /\ (Finished /\ sessionMode = "LESSON" /\ Len(taskQueue) = 28 /\ combo = 28
                 /\ last.pre.progress.totalXp = 0)
       => progress.totalXp = 1036

\* C2 (as claimed): a session finishes only when the task just graded is the
\* last one of the queue as grown by penalty insertion.
C2_FinishOnlyPastGrownQueue ==
    Finished => currentTaskIndex = Len(taskQueue) - 1

\* C3 (as claimed): the stars computed at finish rate all failed submissions of
\* the session, a failure on the final task included, against the scorable count.
C3_StarsRateAllFailures ==
    Finished => FinishStars(last.pre) = Stars(sessionErrors, TasksCount(taskQueue))

C5_LearnLeavesStatsUntouched ==
    (Answered /\ last.success /\ AnsweredTask.type = LEARN) => WordStatsKept

\* C5 (amended): a correct outcome on a LEARN task that is not a retry keeps
\* the box but writes the word's record: consecutiveCorrect grows by 1 and
\* nextReviewDate becomes now plus the interval of the unchanged box (a word
\* without a record gets one, in box 0); a correct retry LEARN writes nothing.
C5_LearnKeepsBoxOnly ==
    (Answered /\ last.success /\ AnsweredTask.type = LEARN)
    => IF AnsweredTask.isRetry THEN WordStatsKept
       ELSE /\ WroteStat(OldStat.box, OldStat.consecutiveCorrect + 1,
                         last.pre.now + IntervalOf(OldStat.box))
            /\ OtherStatsKept

\* C5 witness: a correct LEARN on a word that had no record gave it one.
C5_Witness ==
    /\ Answered /\ last.success /\ AnsweredTask.type = LEARN /\ ~AnsweredTask.isRetry
    /\ AnsweredTask.word \notin DOMAIN last.pre.progress.wordStats
    /\ AnsweredTask.word \in DOMAIN progress.wordStats

\* C6: an incorrect outcome on a non-MATCH task sets the word's box to 0,
\* consecutiveCorrect to 0 and nextReviewDate to the current time.
C6_FailureResets ==
    (Answered /\ ~last.success /\ AnsweredTask.type # MATCH)
    => WroteStat(0, 0, last.pre.now) /\ OtherStatsKept

\* C6 witness: a failure on a word that had reached box 2 or more.
C6_Witness ==
    /\ Answered /\ ~last.success /\ AnsweredTask.type # MATCH
    /\ OldStat.box >= 2
    /\ progress.wordStats[AnsweredTask.word].box = 0

\* C7 (as claimed): an outcome on a retry task, success or failure, leaves the
\* word statistics unchanged.
C7_RetryLeavesStatsUnchanged ==
    (Answered /\ AnsweredTask.isRetry) => WordStatsKept

\* C7 (amended): a successful outcome on a retry task leaves the word
\* statistics unchanged; a failed outcome on a retry task resets the word's
\* record like any other failure.
C7_RetrySuccessLeavesStats ==
    (Answered /\ AnsweredTask.isRetry)
    => IF last.success THEN WordStatsKept
       ELSE WroteStat(0, 0, last.pre.now) /\ OtherStatsKept

\* C7 witness: a failed retry task whose word had been promoted again since the
\* first failure, so that the reset is visible.
C7_Witness ==
    /\ Answered /\ AnsweredTask.isRetry /\ ~last.success
    /\ OldStat.box > 0
    /\ progress.wordStats[AnsweredTask.word].box = 0

\* C8: an outcome on a MATCH task changes no word statistics and inserts no
\* penalty task.
C8_MatchTouchesNothing ==
    (Answered /\ AnsweredTask.type = MATCH)
    => WordStatsKept /\ taskQueue = last.pre.taskQueue

\* C8 witness: a MATCH task answered while its words have records.
C8_Witness ==
    /\ Answered /\ AnsweredTask.type = MATCH
    /\ Len(AnsweredTask.groupWords) >= 2
    /\ \A i \in 1..Len(AnsweredTask.groupWords) :
           AnsweredTask.groupWords[i] \in DOMAIN progress.wordStats

\* C9: every word statistics record has its box in 0..5.
C9_BoxInRange ==
    \A w \in DOMAIN progress.wordStats :
        progress.wordStats[w].box >= 0 /\ progress.wordStats[w].box <= 5

\* C9 witness: a word in box 5 is answered correctly once more.
C9_Witness ==
    /\ Answered /\ last.success /\ ~AnsweredTask.isRetry
    /\ AnsweredTask.type \notin {LEARN, MATCH}
    /\ OldStat.box = 5
    /\ \E w \in DOMAIN progress.wordStats : progress.wordStats[w].box = 0

\* C10: a failed outcome makes the queue 2 tasks longer, a successful one
\* leaves its length unchanged.
C10_QueueGrowsByTwoOnFailure ==
    Answered => Len(taskQueue) = Len(last.pre.taskQueue) + (IF last.success THEN 0 ELSE 2)

\* C10 witness: a failure on the last task of the queue.
C10_Witness ==
    /\ Answered /\ ~last.success
    /\ last.pre.currentTaskIndex = Len(last.pre.taskQueue) - 1
    /\ Len(taskQueue) = Len(last.pre.taskQueue) + 2

\* The last step was a failed outcome.
Failed == Answered /\ ~last.success

\* The position in the queue (counted from 1) of the failed task.
FailedAt == last.pre.currentTaskIndex + 1

\* The number of tasks that were behind the failed task.
RemainingBehind == Len(last.pre.taskQueue) - FailedAt

\* The LEARN penalty task for the failed task.
PenaltyLearnOf(task) == Task(task.word, LEARN, TRUE, <<>>)

\* The retry exercise for the failed task.
PenaltyRetryOf(task) ==
    Task(task.word, IF task.type = SCRAMBLE THEN ASSEMBLE ELSE task.type, TRUE, <<>>)

\* C11 (as claimed): after a failure on the task at index i the LEARN penalty
\* is at i + 1 and the retry exercise directly behind it, at i + 2.
C11_PenaltiesAdjacent ==
    Failed => /\ Len(taskQueue) >= FailedAt + 2
              /\ taskQueue[FailedAt + 1] = PenaltyLearnOf(AnsweredTask)
              /\ taskQueue[FailedAt + 2] = PenaltyRetryOf(AnsweredTask)

\* C11 (amended): after a failure on the task at index i the LEARN penalty is
\* at i + 1; the retry exercise is directly behind it, at i + 2, only when the
\* failed task was the last of the queue, and is at i + 3 otherwise.
C11_RetryAdjacentOnlyAtEnd ==
    Failed =>
        LET retryAt == IF RemainingBehind = 0 THEN FailedAt + 2 ELSE FailedAt + 3
        IN  /\ Len(taskQueue) >= retryAt
            /\ taskQueue[FailedAt + 1] = PenaltyLearnOf(AnsweredTask)
            /\ taskQueue[retryAt] = PenaltyRetryOf(AnsweredTask)
            /\ (RemainingBehind > 0
                  /\ last.pre.taskQueue[FailedAt + 1] # PenaltyRetryOf(AnsweredTask))
               => taskQueue[FailedAt + 2] # PenaltyRetryOf(AnsweredTask)

\* C11 witness: a failure with tasks behind it, whose retry exercise is not
\* directly behind the LEARN penalty.
C11_Witness ==
    /\ Failed /\ RemainingBehind > 0
    /\ taskQueue[FailedAt + 1] = PenaltyLearnOf(AnsweredTask)
    /\ taskQueue[FailedAt + 2] # PenaltyRetryOf(AnsweredTask)
    /\ taskQueue[FailedAt + 3] = PenaltyRetryOf(AnsweredTask)

\* C12: after a failure on the task at index i with a task behind it, the
\* LEARN penalty is at i + 1, the task that was next at i + 2 and the retry
\* exercise at i + 3; with no task behind it, the LEARN penalty is at i + 1 and
\* the retry exercise at i + 2.
C12_RetrySkipsOneSlot ==
    Failed =>
        IF RemainingBehind > 0
        THEN /\ Len(taskQueue) >= FailedAt + 3
             /\ taskQueue[FailedAt + 1] = PenaltyLearnOf(AnsweredTask)
             /\ taskQueue[FailedAt + 2] = last.pre.taskQueue[FailedAt + 1]
             /\ taskQueue[FailedAt + 3] = PenaltyRetryOf(AnsweredTask)
        ELSE /\ Len(taskQueue) = FailedAt + 2
             /\ taskQueue[FailedAt + 1] = PenaltyLearnOf(AnsweredTask)
             /\ taskQueue[FailedAt + 2] = PenaltyRetryOf(AnsweredTask)

\* C12 witness: a failure in front of a task of another word, which now sits
\* between the two penalty tasks.
C12_Witness ==
    /\ Failed /\ RemainingBehind > 0
    /\ last.pre.taskQueue[FailedAt + 1].word # AnsweredTask.word
    /\ taskQueue[FailedAt + 2] = last.pre.taskQueue[FailedAt + 1]
    /\ taskQueue[FailedAt + 3].isRetry

\* C13: the two penalty tasks of a failure carry the failed task's word and
\* are retries; the first is a LEARN task and the second has the failed task's
\* type, except ASSEMBLE for a failed SCRAMBLE. No retry task of type MATCH or
\* SCRAMBLE is ever in a queue.
C13_PenaltyTasksShape ==
    /\ Failed =>
         LET first == taskQueue[FailedAt + 1]
             second == taskQueue[IF RemainingBehind = 0 THEN FailedAt + 2 ELSE FailedAt + 3]
         IN  /\ first.word = AnsweredTask.word /\ first.isRetry /\ first.type = LEARN
             /\ second.word = AnsweredTask.word /\ second.isRetry
             /\ second.type = IF AnsweredTask.type = SCRAMBLE THEN ASSEMBLE
                              ELSE AnsweredTask.type
    /\ \A i \in 1..Len(taskQueue) :
           taskQueue[i].isRetry => taskQueue[i].type \notin {MATCH, SCRAMBLE}

\* C13 witness: a failed SCRAMBLE task, retried as ASSEMBLE.
C13_Witness ==
    /\ Failed /\ AnsweredTask.type = SCRAMBLE
    /\ \E i \in 1..Len(taskQueue) :
           /\ taskQueue[i].isRetry /\ taskQueue[i].type = ASSEMBLE
           /\ taskQueue[i].word = AnsweredTask.word

LessonStarted == last.op \in {"startSession", "selectLesson"}

\* The words of tasks from..to of the queue (counted from 1).
WordsOfTasks(from, to) == {taskQueue[i].word : i \in from..to}

\* C15: the queue of a lesson of 6 words has exactly 28 tasks: 6 LEARN tasks,
\* one per word in catalog order, then 6 CHOICE, 6 ASSEMBLE and 6 SPELL tasks,
\* each group covering every word of the lesson once, then 3 SCRAMBLE tasks on
\* 3 distinct words of the lesson, and last one MATCH task whose group is the
\* whole lesson; no task is a retry.
C15_LessonQueueShape ==
    LET first == progress.currentLessonIndex * 6
        slice == [i \in 1..6 |-> WORD_LIST[first + i]]
        words == {slice[i] : i \in 1..6}
    IN  (LessonStarted /\ Len(WORD_LIST) >= first + 6) =>
            /\ Len(taskQueue) = 28
            /\ \A i \in 1..6 : taskQueue[i].type = LEARN /\ taskQueue[i].word = slice[i]
            /\ \A i \in 7..12 : taskQueue[i].type = CHOICE
            /\ WordsOfTasks(7, 12) = words
            /\ \A i \in 13..18 : taskQueue[i].type = ASSEMBLE
            /\ WordsOfTasks(13, 18) = words
            /\ \A i \in 19..24 : taskQueue[i].type = SPELL
            /\ WordsOfTasks(19, 24) = words
            /\ \A i \in 25..27 : taskQueue[i].type = SCRAMBLE
            /\ WordsOfTasks(25, 27) \subseteq words
            /\ Cardinality(WordsOfTasks(25, 27)) = 3
            /\ taskQueue[28].type = MATCH
            /\ taskQueue[28].groupWords = slice
            /\ \A i \in 1..28 : ~taskQueue[i].isRetry

\* C15 witness: a lesson of 6 words started with its exercises shuffled out of
\* catalog order.
C15_Witness ==
    /\ LessonStarted /\ Len(WORD_LIST) = 6 /\ Len(taskQueue) = 28
    /\ taskQueue[7].word # WORD_LIST[1]
    /\ taskQueue[25].word # WORD_LIST[1]

\* The last step finished a session of the given mode.
FinishedMode(mode) == Finished /\ last.pre.sessionMode = mode

\* The lesson the finished session belongs to.
FinishedLesson == last.pre.progress.currentLessonIndex

\* The stars recorded for a lesson (0 when it has no record).
StarsOf(p, idx) == IF idx \in DOMAIN p.lessonStats THEN p.lessonStats[idx].stars ELSE 0

\* The elements of a sequence.
Elements(s) == {s[i] : i \in 1..Len(s)}

\* The stars the finish rated the session with: from the error count it read
\* and the tasks of its queue that are neither retries nor LEARN tasks.
RatedStars ==
    LET scorable == {i \in 1..Len(last.pre.taskQueue) :
                        ~last.pre.taskQueue[i].isRetry /\ last.pre.taskQueue[i].type # LEARN}
    IN  IF last.pre.sessionErrors = 0 THEN 3
        ELSE IF 10 * last.pre.sessionErrors <= Cardinality(scorable) THEN 2
        ELSE 1

\* C16: when a LESSON session finishes, the lesson's statistics become
\* stars = max(old stars, new stars) and isCompleted = TRUE, and the completed
\* words become the prior ones together with the words of all LEARN tasks that
\* are not retries, without duplicates. From fresh progress, lesson 0 answered
\* all correctly ends with lesson 0 at 3 stars, completed, and 6 completed words.
C16_LessonFinishRecords ==
    /\ FinishedMode("LESSON") =>
         LET learned == {last.pre.taskQueue[i].word :
                           i \in {k \in 1..Len(last.pre.taskQueue) :
                                    /\ last.pre.taskQueue[k].type = LEARN
                                    /\ ~last.pre.taskQueue[k].isRetry}}
             old == StarsOf(last.pre.progress, FinishedLesson)
         IN  /\ FinishedLesson \in DOMAIN progress.lessonStats
             /\ progress.lessonStats[FinishedLesson].stars
                    = IF old >= RatedStars THEN old ELSE RatedStars
             /\ progress.lessonStats[FinishedLesson].isCompleted
             /\ Elements(progress.completedWordIds)
                    = Elements(last.pre.progress.completedWordIds) \cup learned
             /\ Cardinality(Elements(progress.completedWordIds))
                    = Len(progress.completedWordIds)
    /\ (FinishedMode("LESSON") /\ FinishedLesson = 0 /\ Len(WORD_LIST) >= 6
           /\ last.pre.progress.lessonStats = <<>>
           /\ last.pre.progress.completedWordIds = <<>>
           /\ sessionErrors = 0)
       => /\ progress.lessonStats[0].stars = 3
          /\ progress.lessonStats[0].isCompleted
          /\ Len(progress.completedWordIds) = 6

\* C16 witness: a lesson completed with 3 stars is finished again with an
\* error; its stars stay 3 and its 6 words are not recorded twice.
C16_Witness ==
    /\ FinishedMode("LESSON")
    /\ StarsOf(last.pre.progress, FinishedLesson) = 3
    /\ RatedStars < 3
    /\ progress.lessonStats[FinishedLesson].stars = 3
    /\ Len(last.pre.progress.completedWordIds) = 6
    /\ Len(progress.completedWordIds) = 6

\* C17: at every step, for every lesson the recorded stars do not decrease and
\* a lesson recorded as completed stays completed.
C17_LessonStatsMonotone ==
    \A idx \in DOMAIN last.pre.progress.lessonStats :
        /\ idx \in DOMAIN progress.lessonStats
        /\ progress.lessonStats[idx].stars >= last.pre.progress.lessonStats[idx].stars
        /\ last.pre.progress.lessonStats[idx].isCompleted
               => progress.lessonStats[idx].isCompleted

\* C17 witness: a lesson recorded with 3 stars is finished again with a lower
\* rating.
C17_Witness ==
    /\ FinishedMode("LESSON")
    /\ FinishedLesson \in DOMAIN last.pre.progress.lessonStats
    /\ last.pre.progress.lessonStats[FinishedLesson].stars = 3
    /\ last.pre.progress.lessonStats[FinishedLesson].isCompleted
    /\ RatedStars = 1

\* C18: from its start to its finish a REVIEW session leaves the lesson
\* statistics and the completed words as they were.
C18_ReviewKeepsLessonRecords ==
    sessionMode = "REVIEW" =>
        /\ progress.lessonStats = last.pre.progress.lessonStats
        /\ progress.completedWordIds = last.pre.progress.completedWordIds

\* C18 witness: a REVIEW session finishes with all answers correct after a
\* lesson was completed with fewer than 3 stars.
C18_Witness ==
    /\ FinishedMode("REVIEW")
    /\ sessionErrors = 0
    /\ \E idx \in DOMAIN progress.lessonStats : progress.lessonStats[idx].stars < 3
    /\ progress.completedWordIds # <<>>

\* The calendar day a time falls on, counted from the first day.
DayNumber(t) == t \div oneDay

\* C19 (as claimed): at finish dayStreak is incremented by 1 exactly when the
\* calendar day of lastStudyDate is the day before today, left unchanged exactly
\* when lastStudyDate falls on today's calendar day, and reset to 1 in every
\* other case.
C19_StreakFollowsCalendarDays ==
    Finished =>
        LET lastDay == DayNumber(last.pre.progress.lastStudyDate)
            today == DayNumber(last.pre.now)
        IN  progress.dayStreak =
                IF lastDay = today THEN last.pre.progress.dayStreak
                ELSE IF lastDay + 1 = today THEN last.pre.progress.dayStreak + 1
                ELSE 1

\* The last step was a timer of an exited session firing: the outcome of an
\* answer given before the learner left that session.
StaleOutcome == Answered /\ last.stale

\* C20 (as claimed): a session the learner has exited never finishes: an
\* outcome still pending from it shows no summary and commits nothing to
\* totalXp, dayStreak, lastStudyDate, lessonStats or completedWordIds.
C20_ExitedSessionNeverFinishes ==
    StaleOutcome =>
        /\ appState = SUMMARY => last.pre.appState = SUMMARY
        /\ progress.totalXp = last.pre.progress.totalXp
        /\ progress.dayStreak = last.pre.progress.dayStreak
        /\ progress.lastStudyDate = last.pre.progress.lastStudyDate
        /\ progress.lessonStats = last.pre.progress.lessonStats
        /\ progress.completedWordIds = last.pre.progress.completedWordIds

\* C21 (as claimed): the live session state (queue, index, combo, session XP,
\* session errors) and the word statistics change only through an outcome for
\* the task at the current index of the running session: the outcome of an
\* answer given in an earlier, exited session leaves a session started
\* afterwards as it is.
C21_StaleOutcomeLeavesLaterSession ==
    (StaleOutcome /\ last.pre.appState = SESSION) =>
        /\ taskQueue = last.pre.taskQueue
        /\ currentTaskIndex = last.pre.currentTaskIndex
        /\ combo = last.pre.combo
        /\ sessionXpGained = last.pre.sessionXpGained
        /\ sessionErrors = last.pre.sessionErrors
        /\ appState = SESSION
        /\ progress.wordStats = last.pre.progress.wordStats

\* The last step was a press of the review button.
ReviewAsked == last.op = "startReviewSession"

\* C22: a review asked for while completedWordIds and wordStats are both empty
\* is answered with "nothing to review" and changes nothing: no session is
\* entered and the queue, the session counters, the screen and the progress
\* stay as they were.
C22_EmptyReviewChangesNothing ==
    (ReviewAsked /\ last.pre.progress.completedWordIds = <<>>
                 /\ last.pre.progress.wordStats = <<>>)
    => /\ ~last.success
       /\ appState = last.pre.appState
       /\ appState # SESSION
       /\ taskQueue = last.pre.taskQueue
       /\ currentTaskIndex = last.pre.currentTaskIndex
       /\ combo = last.pre.combo
       /\ sessionXpGained = last.pre.sessionXpGained
       /\ sessionErrors = last.pre.sessionErrors
       /\ sessionMode = last.pre.sessionMode
       /\ isFlipped = last.pre.isFlipped
       /\ progress = last.pre.progress

\* C22 witness: a review asked for with nothing learned yet, after a lesson
\* was started and left at its first card.
C22_Witness ==
    /\ ReviewAsked /\ ~last.success
    /\ progress.completedWordIds = <<>> /\ progress.wordStats = <<>>
    /\ taskQueue # <<>>
    /\ appState = DASHBOARD

\* The last step started a review session.
ReviewStarted == ReviewAsked /\ last.success

\* The box the review read for a word, and whether the word was due.
BoxThen(w) == getWordStats(last.pre.progress, w).box
DueThen(w) == getWordStats(last.pre.progress, w).nextReviewDate <= last.pre.now

\* The candidates of the review: the catalog words completed or with a record.
Candidates ==
    {w \in Elements(WORD_LIST) :
        w \in Elements(last.pre.progress.completedWordIds)
              \cup DOMAIN last.pre.progress.wordStats}

\* The positions of the queue's exercises on single words, and their words.
WordTaskAt == {i \in 1..Len(taskQueue) : taskQueue[i].type # MATCH}
Selected == {taskQueue[i].word : i \in WordTaskAt}

\* Word a comes strictly before word b in the (due status, box) order.
Precedes(a, b) ==
    \/ DueThen(a) /\ ~DueThen(b)
    \/ DueThen(a) = DueThen(b) /\ BoxThen(a) < BoxThen(b)

\* C23: a review selects at most 12 distinct candidates and respects the
\* (due status, box) order: no candidate left out is due while a selected word
\* is not, among words of equal due status no candidate left out has a lower
\* box than a selected one, and the selected words are in the queue in that
\* order, each word's tasks together.
C23_ReviewSelectionOrdered ==
    ReviewStarted =>
        /\ Selected \subseteq Candidates
        /\ Cardinality(Selected) <= 12
        /\ \A u \in Candidates \ Selected : \A w \in Selected : ~Precedes(u, w)
        /\ \A i, j \in WordTaskAt :
               i < j => ~Precedes(taskQueue[j].word, taskQueue[i].word)
        /\ \A i, j, k \in WordTaskAt :
               (i < j /\ j < k /\ taskQueue[i].word = taskQueue[k].word)
               => taskQueue[j].word = taskQueue[i].word

\* C23 witness: 13 candidates, due and not due, of which 12 are selected, a
\* not-due one among them.
C23_Witness ==
    /\ ReviewStarted
    /\ Cardinality(Candidates) = 13
    /\ Cardinality(Selected) = 12
    /\ \E w \in Selected : ~DueThen(w)
    /\ \E u \in Candidates \ Selected : ~DueThen(u)

\* The task types a word of the given box contributes.
TierOf(box) ==
    IF box <= 1 THEN <<LEARN, ASSEMBLE>>
    ELSE IF box <= 3 THEN <<SCRAMBLE, SPELL>>
    ELSE <<SPELL>>

\* The queue q is made of one tier of tasks per word, and the words are ws.
RECURSIVE TierShaped(_, _)
TierShaped(q, ws) ==
    IF ws = <<>> THEN q = <<>>
    ELSE LET tier == TierOf(BoxThen(ws[1]))
         IN  /\ Len(q) >= Len(tier)
             /\ \A i \in 1..Len(tier) : q[i] = Task(ws[1], tier[i], FALSE, <<>>)
             /\ TierShaped(SubSeq(q, Len(tier) + 1, Len(q)), Tail(ws))

\* The selected words in the order of their first task.
SelectedInOrder ==
    LET firstAt == {i \in WordTaskAt :
                       \A j \in WordTaskAt : j < i => taskQueue[j].word # taskQueue[i].word}
        nth[n \in 0..Len(taskQueue)] ==
            IF n = 0 THEN <<>>
            ELSE IF n \in firstAt THEN Append(nth[n - 1], taskQueue[n].word)
            ELSE nth[n - 1]
    IN  nth[Len(taskQueue)]

\* C24: in a review queue each selected word contributes, in selection order,
\* [LEARN, ASSEMBLE] for box 0 or 1, [SCRAMBLE, SPELL] for box 2 or 3 and
\* [SPELL] for box 4 or 5; one MATCH task on the first 6 selected words is the
\* last task exactly when at least 6 words were selected, and there is no
\* MATCH task otherwise.
C24_ReviewQueueTiers ==
    ReviewStarted =>
        LET words == SelectedInOrder
            n == Cardinality(WordTaskAt)
        IN  /\ WordTaskAt = 1..n
            /\ TierShaped(SubSeq(taskQueue, 1, n), words)
            /\ IF Len(words) >= 6
               THEN /\ Len(taskQueue) = n + 1
                    /\ taskQueue[n + 1].type = MATCH
                    /\ taskQueue[n + 1].groupWords = SubSeq(words, 1, 6)
                    /\ ~taskQueue[n + 1].isRetry
               ELSE Len(taskQueue) = n

\* C24 witness: a review of 12 words with all three tiers and the MATCH task.
C24_Witness ==
    /\ ReviewStarted
    /\ Len(SelectedInOrder) = 12
    /\ \E w \in Selected : BoxThen(w) <= 1
    /\ \E w \in Selected : BoxThen(w) \in {2, 3}
    /\ \E w \in Selected : BoxThen(w) >= 4
    /\ taskQueue[Len(taskQueue)].type = MATCH

\* The last step entered a session.
SessionStarted ==
    \/ last.op \in {"startSession", "selectLesson"}
    \/ ReviewStarted

\* The learning fields of the progress are as they were, currentLessonIndex
\* aside.
LearningKept ==
    /\ progress.completedWordIds = last.pre.progress.completedWordIds
    /\ progress.wordStats = last.pre.progress.wordStats
    /\ progress.lessonStats = last.pre.progress.lessonStats
    /\ progress.lastStudyDate = last.pre.progress.lastStudyDate
    /\ progress.totalXp = last.pre.progress.totalXp
    /\ progress.dayStreak = last.pre.progress.dayStreak

\* C25 (as claimed): starting a lesson session, with or without an explicit
\* lesson index, or a review session leaves every learning field of the
\* progress unchanged, currentLessonIndex included.
C25_StartKeepsProgress ==
    SessionStarted =>
        /\ LearningKept
        /\ progress.currentLessonIndex = last.pre.progress.currentLessonIndex

\* C25 (amended): starting a session leaves completedWordIds, wordStats,
\* lessonStats, lastStudyDate, totalXp and dayStreak unchanged; the current
\* lesson's start and a review's start also leave currentLessonIndex unchanged,
\* while starting a lesson picked in the course list sets currentLessonIndex
\* to the lesson picked.
C25_StartKeepsAllButLessonIndex ==
    SessionStarted =>
        /\ LearningKept
        /\ last.op # "selectLesson"
             => progress.currentLessonIndex = last.pre.progress.currentLessonIndex
        /\ last.op = "selectLesson"
             => taskQueue[1].word = WORD_LIST[progress.currentLessonIndex * 6 + 1]

\* C25 witness: the second lesson picked in the course list while the first
\* is the current one.
C25_Witness ==
    /\ last.op = "selectLesson"
    /\ last.pre.progress.currentLessonIndex = 0
    /\ progress.currentLessonIndex = 1
    /\ taskQueue[1].word = WORD_LIST[7]

\* The progress p is the default empty progress.
IsDefaultProgress(p) ==
    /\ p.currentLessonIndex = 0
    /\ p.completedWordIds = <<>>
    /\ p.wordStats = <<>>
    /\ p.lessonStats = <<>>
    /\ p.totalXp = 0
    /\ p.dayStreak = 0
    /\ ~p.reminderEnabled

\* C26: loading the progress never fails: with no stored value or with one
\* that cannot be parsed, the progress loaded is the default empty progress
\* (lesson index 0, no completed words, no word or lesson statistics, totalXp
\* 0, dayStreak 0, reminder disabled).
C26_LoadFallsBackToDefault ==
    /\ (last.op = "init" /\ ~last.success) => IsDefaultProgress(progress)
    /\ \A saved \in {NoItem, NotJson} :
           IsDefaultProgress(getInitialProgressFrom(saved, now))

\* C26 witness: the app constructed without a readable stored progress.
C26_Witness ==
    /\ last.op = "init" /\ ~last.success
    /\ appState = DASHBOARD
    /\ progress.dayStreak = 0

\* C27: a progress saved and loaded again is the progress that was saved,
\* field by field.
C27_SaveLoadRoundTrip ==
    /\ last.op = "reload" => progress = last.pre.progress
    /\ getInitialProgressFrom(setItem(progress), now) = progress

\* C27 witness: a page load after a finished lesson, with word and lesson
\* statistics, completed words and XP stored.
C27_Witness ==
    /\ last.op = "reload"
    /\ progress.wordStats # <<>>
    /\ progress.lessonStats # <<>>
    /\ progress.completedWordIds # <<>>
    /\ progress.totalXp >= 10
    /\ \E w \in DOMAIN progress.wordStats : progress.wordStats[w].nextReviewDate >= 10

\* C28: the reminder timer shows its notification at most once per calendar
\* day, however many checks fall within the reminder minute, and only while
\* reminders are enabled and notification permission is granted; a check
\* changes neither the session state nor the learning fields of the progress.
C28_ReminderOncePerDay ==
    /\ \A i, j \in 1..Len(reminder.shown) :
           reminder.shown[i].day = reminder.shown[j].day => i = j
    /\ \A i \in 1..Len(reminder.shown) :
           reminder.shown[i].enabled /\ reminder.shown[i].permission = "granted"
    /\ last.op = "checkReminder" =>
           /\ Closure = last.pre
           /\ pending = <<>>
           /\ last.success => Len(reminder.shown) > 0

\* C28 witness: a check within the reminder minute of a day already notified
\* shows nothing, after notifications on two days.
C28_Witness ==
    /\ last.op = "checkReminder" /\ ~last.success
    /\ progress.reminderEnabled /\ reminder.permission = "granted"
    /\ ClockText(reminder.minute) = progress.reminderTime
    /\ Len(reminder.shown) = 2

\* C29: for every box in 0..5 the next review time is now plus
\* intervals[min(box, 5)] days, with intervals = [1, 2, 4, 7, 14, 30], and it
\* is strictly increasing in the box.
C29_NextReviewTime ==
    /\ \A box \in 0..5 :
           getNextReviewTime(box, now)
               = now + <<1, 2, 4, 7, 14, 30>>[(IF box < 5 THEN box ELSE 5) + 1] * oneDay
    /\ \A box \in 0..4 : getNextReviewTime(box, now) < getNextReviewTime(box + 1, now)

\* C29 witness: a word promoted to box 5 on a later day is scheduled 30 days
\* ahead.
C29_Witness ==
    /\ Answered /\ last.success
    /\ last.pre.now > StartTime
    /\ AnsweredTask.word \in DOMAIN progress.wordStats
    /\ progress.wordStats[AnsweredTask.word].box = 5
    /\ progress.wordStats[AnsweredTask.word].nextReviewDate = last.pre.now + 30 * oneDay

\* C30: a MATCH task never reports a failed outcome to the session: every
\* outcome it reports is a success; a step of the game (a click, a matched or
\* a mismatched pair's timer) changes neither sessionErrors nor combo nor
\* anything else of the session, and a mismatched pair's timer only clears the
\* selection; handleCorrect has been called exactly once when the matched
\* pairs have reached the size of the word group and not before, and its
\* report is the only one pending.
C30_MatchReportsSuccessOnce ==
    /\ (Answered /\ AnsweredTask.type = MATCH) => last.success
    /\ last.op \in {"handleMatchCardClick", "matchTimer", "mismatchTimer"} =>
           /\ sessionErrors = last.pre.sessionErrors
           /\ combo = last.pre.combo
           /\ sessionXpGained = last.pre.sessionXpGained
           /\ taskQueue = last.pre.taskQueue
           /\ currentTaskIndex = last.pre.currentTaskIndex
           /\ progress = last.pre.progress
           /\ appState = SESSION
    /\ last.op = "mismatchTimer" =>
           card.matchSelection = <<>> /\ card.status = "idle" /\ pending = <<>>
    /\ MatchShown =>
           /\ card.matchesFound = Cardinality({c.wordId : c \in {m \in card.matchCards : m.isMatched}})
           /\ card.reported =
                  IF card.matchesFound >= Len(CurrentTask(Closure).groupWords)
                  THEN 1 ELSE 0
           /\ Len(pending) = card.reported
           /\ \A k \in 1..Len(pending) : pending[k].success
    /\ (last.op = "matchTimer" /\ last.success) <=>
           (MatchShown /\ card.reported = 1)

\* C30 witness: the last pair of a game of two pairs has just been matched,
\* after a mismatched pair and an earlier failure in the session; the one
\* report is pending and combo and errors are those of before the game.
C30_Witness ==
    /\ last.op = "matchTimer" /\ last.success
    /\ card.mismatched
    /\ card.matchesFound = 2
    /\ card.reported = 1 /\ Len(pending) = 1
    /\ sessionErrors > 0 /\ combo > 0

\* The timers pending of the card shown.
MountedTimers == {k \in 1..Len(pending) : pending[k].mounted}

\* C31: each presentation of a question card delivers at most one outcome:
\* the card shown never has more than one outcome timer pending, a
\* submission leaves the card busy and the session as it was, the pending
\* timer of the card shown carries the session state it was submitted in,
\* and when it is delivered to that state the index advances by at most
\* one, at most one error is counted, the XP of one outcome is earned, and
\* the card is replaced.
C31_OneOutcomePerPresentation ==
    /\ Cardinality(MountedTimers) <= 1
    /\ \A k \in MountedTimers :
           /\ pending[k].cl = Closure
           /\ CurrentTask(pending[k].cl).type # LEARN
    /\ last.op = "submitAnswer" =>
           /\ ~CardIdle
           /\ currentTaskIndex = last.pre.currentTaskIndex
           /\ sessionErrors = last.pre.sessionErrors
           /\ sessionXpGained = last.pre.sessionXpGained
    /\ last.op = "handleTaskComplete" => CardIdle
    /\ (last.op = "handleTaskComplete" /\ last.cl = last.pre) =>
           /\ currentTaskIndex - last.pre.currentTaskIndex \in {0, 1}
           /\ sessionErrors - last.pre.sessionErrors
                  = (IF last.success THEN 0 ELSE 1)
           /\ sessionXpGained
                  = last.pre.sessionXpGained + XpGain(last.cl, last.success)

\* C31 witness: a CHOICE answer whose timer is pending on the card shown,
\* while the timer of an exited session is pending too.
C31_Witness ==
    /\ last.op = "submitAnswer"
    /\ Len(pending) = 2
    /\ Cardinality(MountedTimers) = 1
    /\ CurrentTask(Closure).type = CHOICE

\* The stars renderSummary shows, from the sessionErrors of its render.
SummaryStars(errors) ==
    IF errors = 0 THEN 3
    ELSE IF errors < 3 THEN 2
    ELSE 1

\* C32: for every finished LESSON session the stars shown on the summary
\* screen equal the stars finishSession computed for the session.
C32_SummaryShowsRatedStars ==
    FinishedMode("LESSON") => SummaryStars(sessionErrors) = RatedStars

\* C33: after any finished session dayStreak is at least 1, the first
\* session finished on default progress on the day it was created included.
C33_FinishedStreakPositive ==
    Finished => progress.dayStreak >= 1

\* C34: finishing a session never changes currentLessonIndex; no step but
\* the start of a lesson picked by its index changes it; a lesson started
\* without an index, also after that lesson was finished, gets the queue of
\* the lesson currentLessonIndex names.
C34_FinishKeepsLessonIndex ==
    /\ Finished => progress.currentLessonIndex = last.pre.progress.currentLessonIndex
    /\ last.op # "selectLesson"
           => progress.currentLessonIndex = last.pre.progress.currentLessonIndex
    /\ last.op = "startSession" =>
           \E r \in 0..MaxRand :
               taskQueue = LessonQueue(last.pre.progress.currentLessonIndex, r)

\* C34 witness: the second lesson was picked and finished, and the lesson
\* started next without an index is the second lesson again.
C34_Witness ==
    /\ last.op = "startSession"
    /\ progress.currentLessonIndex = 1
    /\ 1 \in DOMAIN progress.lessonStats /\ progress.lessonStats[1].isCompleted
    /\ taskQueue[1].word = WORD_LIST[WORDS_PER_LESSON + 1]

\* C35 (safety part): while a session is in progress currentTaskIndex is a
\* valid index of the task queue, and an outcome raises it by one or, when it
\* finishes the session, leaves it.
C35_IndexValidInSession ==
    /\ appState = SESSION =>
           0 <= currentTaskIndex /\ currentTaskIndex < Len(taskQueue)
    /\ last.op = "handleTaskComplete" =>
           currentTaskIndex - last.pre.currentTaskIndex \in {0, 1}

\* C36: the penalty insertion after a failure at index i leaves the tasks at
\* indices 0..i as they were and adds exactly two tasks; the queue without
\* the two penalty tasks is the queue of before, so every task that was
\* behind index i is kept once and in its order, the failure being on the
\* first task, on the last or in between.
C36_SpliceKeepsTasks ==
    Failed =>
        LET old == last.pre.taskQueue
            retryAt == IF RemainingBehind = 0 THEN FailedAt + 2 ELSE FailedAt + 3
        IN  /\ Len(taskQueue) = Len(old) + 2
            /\ SubSeq(taskQueue, 1, FailedAt) = SubSeq(old, 1, FailedAt)
            /\ Without(Without(taskQueue, retryAt), FailedAt + 1) = old
            /\ taskQueue[FailedAt + 1] = PenaltyLearnOf(AnsweredTask)
            /\ taskQueue[retryAt] = PenaltyRetryOf(AnsweredTask)

\* C36 witness: a failure on the first task of a queue, with a task of
\* another word behind it, which now sits between the two penalty tasks.
C36_Witness ==
    /\ Failed /\ FailedAt = 1 /\ RemainingBehind >= 1
    /\ taskQueue[3].word # AnsweredTask.word
    /\ taskQueue[3] = last.pre.taskQueue[2]
    /\ Len(taskQueue) = Len(last.pre.taskQueue) + 2

\* C37: an asset answered from the cache is still fetched from the network,
\* and the fetch's response with status 200 replaces the cached entry; a
\* request that is no asset is answered from the network, from the cache
\* only when the network fetch was rejected.
C37_AssetsRevalidated ==
    LET response == sw.response
    IN  /\ (last.op = "onFetch" /\ response.asset /\ response.hit) =>
               /\ response.fetched
               /\ response.outcome = "ok"
                      => sw.cache[response.request] = sw.server[response.request]
        /\ (last.op = "onFetch" /\ ~response.asset /\ response.from = "cache")
               => response.outcome = "rejected"

====
